---------------------------- MODULE Spec2Model ----------------------------
(***************************************************************************)
(* A model of the on-chip data compression library (namespace              *)
(* pixel_studies): the bit-level Package, the Huffman tree / encoder /     *)
(* decoder, the chip containers and the four package makers.               *)
(*                                                                         *)
(* Machine integers.  Package::Integer is uint64_t.  A 64-bit value is     *)
(* modelled by the set of the positions of its 1-bits (a subset of        *)
(* 0..63), so that shifts, masks and comparisons keep the width of the     *)
(* source; a byte of the container is the same for positions 0..7.         *)
(* Small quantities (sizes, pixel ids, ADC values) are naturals and are    *)
(* converted where the source converts them.                               *)
(***************************************************************************)
EXTENDS Integers, Sequences, FiniteSets, TLC

VARIABLES
    package,    \* the Package under test: data, size (end_iter), readout
    iter,       \* position of a Package::iterator on `package`
    last,       \* the last call on the package / iterator and its outcome
    huff,       \* Huffman harness: frequency map, table, letters, package
    codec       \* codec harness: configuration, chip, dictionary, results

vars == <<package, iter, last, huff, codec>>

(***************************************************************************)
(* Bounds of the model (not program constants).                            *)
(***************************************************************************)
MaxCalls == 3           \* successful calls made on the package in a sequence
MaxPrefixBits == 9      \* bits already in a package before the call under test
MaxLetters == 3         \* letters of a letter -> frequency map
MaxFrequency == 2       \* largest frequency of a letter in a map
MaxSequence == 2        \* letters encoded into one package
MaxPixels == 2          \* pixels of a chip read out pixel by pixel
MaxTrainingChips == 1   \* chips added to a dictionary builder

(***************************************************************************)
(* Program constants.                                                      *)
(***************************************************************************)
BitsPerByte == 8
BitsPerItem == 8
BitsPerInteger == 64
MaxNumberOfBits == 64

Min(a, b) == IF a < b THEN a ELSE b
Max(a, b) == IF a > b THEN a ELSE b

\* a value computed once and used under a name: With(e, LAMBDA x : ...)
With(value, Use(_)) == Use(value)

(***************************************************************************)
(* uint64_t arithmetic on sets of bit positions.                           *)
(***************************************************************************)
U64Zero == {}
U64One == {0}
U64Max == 0 .. (BitsPerInteger - 1)

\* value >> s, for s < 64
ShiftRight(v, s) == {b - s : b \in {x \in v : x >= s}}

\* value << s; bits shifted past bit 63 are lost.  The source shifts by 64
\* only a value that is 0 (read with nothing left), for which every
\* outcome of the shift is 0.
ShiftLeft(v, s) == {b + s : b \in {x \in v : x + s < BitsPerInteger}}

BitAnd(v, w) == v \cap w
BitOr(v, w) == v \cup w

\* a > b on uint64_t: the highest bit in which they differ is set in a
U64Greater(a, b) == \E i \in a \ b : \A j \in b \ a : j < i

\* v - 1 (modulo 2^64)
U64Minus1(v) ==
    IF v = {} THEN U64Max
    ELSE LET l == CHOOSE x \in v : \A y \in v : x <= y
         IN (v \ {l}) \cup (0 .. (l - 1))

\* a + b (modulo 2^64), by ripple carry
U64Add(a, b) ==
    LET c[i \in 0 .. BitsPerInteger] ==
            IF i = 0 THEN FALSE
            ELSE LET x == (i - 1) \in a
                     y == (i - 1) \in b
                 IN (x /\ y) \/ (x /\ c[i - 1]) \/ (y /\ c[i - 1])
    IN IF a \cap b = {} THEN a \cup b
       ELSE {i \in U64Max : ((i \in a) # (i \in b)) # c[i]}

\* size_t / Adc -> Integer (values below 2^31 in the model)
ToInteger(n) == {i \in 0 .. 30 : (n \div (2 ^ i)) % 2 = 1}

\* Integer -> size_t, for values below 2^31
ToNat(v) ==
    LET f[i \in 0 .. 31] == IF i = 31 THEN 0
                            ELSE (IF i \in v THEN 2 ^ i ELSE 0) + f[i + 1]
    IN f[0]

(***************************************************************************)
(* Package.  A call that throws returns a record with ok = FALSE.          *)
(***************************************************************************)
EmptyPackage == [ok |-> TRUE, data |-> <<>>, size |-> 0, readout |-> <<>>]

Throw(p) == [p EXCEPT !.ok = FALSE]

Mask_WidePlusOne(n_bits) == 0 .. n_bits

Mask(n_bits) ==
    IF n_bits = BitsPerInteger THEN U64Max
    ELSE U64Minus1(ShiftLeft(U64One, n_bits))

\* the argument check shared by write and write_ex
WidthCheck_NoValueCheck(value, number_of_bits) ==
    number_of_bits <= BitsPerInteger

WidthCheck(value, number_of_bits) ==
    IF number_of_bits > BitsPerInteger THEN FALSE
    ELSE IF number_of_bits < BitsPerInteger
         THEN LET max_input_value == U64Minus1(ShiftLeft(U64One, number_of_bits))
              IN ~U64Greater(value, max_input_value)
         ELSE TRUE

RECURSIVE write_ex_loop(_, _, _, _)
write_ex_loop(p, value, number_of_bits, n_written) ==
    IF ~(n_written < number_of_bits) THEN p
    ELSE LET current_shift == p.size % BitsPerItem
             data1 == IF current_shift = 0 THEN Append(p.data, {}) ELSE p.data
             delta == number_of_bits - n_written
             n_to_write == Min(BitsPerItem - current_shift, delta)
             mask == Mask(n_to_write)
             masked_value == BitAnd(ShiftRight(value, n_written), mask)
             max_to_write == U64Minus1(ShiftLeft(U64One, n_to_write))
             value_to_write == ShiftLeft(masked_value, current_shift)
             back == Len(data1)
         IN IF U64Greater(masked_value, max_to_write)
            THEN Throw([p EXCEPT !.data = data1])
            ELSE write_ex_loop(
                   [p EXCEPT !.data = [data1 EXCEPT ![back] =
                                          BitOr(@, value_to_write) \cap (0 .. (BitsPerItem - 1))],
                             !.size = @ + n_to_write],
                   value, number_of_bits, n_written + n_to_write)

write_ex(p, value, number_of_bits) ==
    IF ~WidthCheck(value, number_of_bits) THEN Throw(p)
    ELSE write_ex_loop(p, value, number_of_bits, 0)

RECURSIVE write_loop(_, _, _, _)
write_loop(p, value, number_of_bits, n) ==
    IF ~(n < number_of_bits) \/ ~p.ok THEN p
    ELSE LET shift == number_of_bits - n - 1
             bit == BitAnd(ShiftRight(value, shift), U64One)
         IN write_loop(write_ex(p, bit, 1), value, number_of_bits, n + 1)

write(p, value, number_of_bits) ==
    IF ~WidthCheck(value, number_of_bits) THEN Throw(p)
    ELSE write_loop(p, value, number_of_bits, 0)

finalize_byte(p) ==
    LET n_written == p.size % BitsPerByte
        n_to_write == IF n_written # 0 THEN BitsPerByte - n_written ELSE 0
    IN write(p, U64Zero, n_to_write)

next_readout_cicle_Ahead(p) == [p EXCEPT !.readout = Append(@, p.size + 1)]

next_readout_cicle(p) == [p EXCEPT !.readout = Append(@, p.size)]

\* next_readout_cicle when the condition of the loop holds
MarkIf(p, condition) == IF p.ok /\ condition THEN next_readout_cicle(p) ELSE p

(***************************************************************************)
(* Package::iterator.  A read returns [ok, value, pos]; a read that throws *)
(* leaves pos where it was.                                                *)
(***************************************************************************)
RECURSIVE read_ex_loop(_, _, _, _, _)
read_ex_loop(p, pos, number_of_bits, n_read, result) ==
    IF ~(n_read < number_of_bits) THEN [value |-> result, pos |-> pos]
    ELSE LET shift == pos % BitsPerItem
             item_position == pos \div BitsPerItem
             n_to_read == Min(BitsPerItem - shift, number_of_bits - n_read)
             data0 == p.data[item_position + 1]
             data1 == ShiftRight(data0, shift)
             mask == Mask(n_to_read)
             data2 == BitAnd(data1, mask)
             data3 == ShiftLeft(data2, n_read)
         IN read_ex_loop(p, pos + n_to_read, number_of_bits, n_read + n_to_read,
                         BitOr(result, data3))

read_ex(p, pos, number_of_bits_requested, use_zeros_for_missing_data) ==
    LET bits_left == p.size - pos
    IN IF number_of_bits_requested > BitsPerInteger
       THEN [ok |-> FALSE, value |-> U64Zero, pos |-> pos]
       ELSE IF number_of_bits_requested > bits_left /\ ~use_zeros_for_missing_data
       THEN [ok |-> FALSE, value |-> U64Zero, pos |-> pos]
       ELSE LET number_of_bits == Min(number_of_bits_requested, bits_left)
                r == read_ex_loop(p, pos, number_of_bits, 0, U64Zero)
            IN [ok |-> TRUE,
                value |-> ShiftLeft(r.value, number_of_bits_requested - number_of_bits),
                pos |-> r.pos]

\* the loop of read: st is [ok, value, pos] after n_read single-bit reads
RECURSIVE read_loop(_, _, _, _)
read_loop(p, st, number_of_bits, n_read) ==
    IF ~(n_read < number_of_bits) \/ ~st.ok THEN st
    ELSE With(read_ex(p, st.pos, 1, FALSE), LAMBDA r :
             read_loop(p,
                       [ok |-> r.ok,
                        value |-> U64Add(ShiftLeft(st.value, 1), r.value),
                        pos |-> r.pos],
                       number_of_bits, n_read + 1))

read_NoFinalShift(p, pos, number_of_bits_requested, use_zeros_for_missing_data) ==
    LET bits_left == p.size - pos
    IN IF number_of_bits_requested > BitsPerInteger
       THEN [ok |-> FALSE, value |-> U64Zero, pos |-> pos]
       ELSE IF number_of_bits_requested > bits_left /\ ~use_zeros_for_missing_data
       THEN [ok |-> FALSE, value |-> U64Zero, pos |-> pos]
       ELSE With(read_loop(p, [ok |-> TRUE, value |-> U64Zero, pos |-> pos],
                           Min(number_of_bits_requested, bits_left), 0),
                 LAMBDA r : [ok |-> r.ok, value |-> r.value, pos |-> r.pos])

read(p, pos, number_of_bits_requested, use_zeros_for_missing_data) ==
    LET bits_left == p.size - pos
    IN IF number_of_bits_requested > BitsPerInteger
       THEN [ok |-> FALSE, value |-> U64Zero, pos |-> pos]
       ELSE IF number_of_bits_requested > bits_left /\ ~use_zeros_for_missing_data
       THEN [ok |-> FALSE, value |-> U64Zero, pos |-> pos]
       ELSE With(read_loop(p, [ok |-> TRUE, value |-> U64Zero, pos |-> pos],
                           Min(number_of_bits_requested, bits_left), 0),
                 LAMBDA r :
                    [ok |-> r.ok,
                     value |-> ShiftLeft(r.value,
                         number_of_bits_requested
                             - Min(number_of_bits_requested, bits_left)),
                     pos |-> r.pos])

\* Package::write(const Package& other): other is read in chunks of at
\* most 64 bits and each chunk is written MSB-first.
RECURSIVE write_package_loop(_, _, _)
write_package_loop(p, other, pos) ==
    IF pos = other.size \/ ~p.ok THEN p
    ELSE With(read(other, pos, Min(BitsPerInteger, other.size - pos), FALSE),
              LAMBDA r :
                 IF ~r.ok THEN Throw(p)
                 ELSE write_package_loop(
                          write(p, r.value, Min(BitsPerInteger, other.size - pos)),
                          other, r.pos))

write_package(p, other) == write_package_loop(p, other, 0)


(***************************************************************************)
(* The package harness.  `last` is the last call made on the package and   *)
(* its outcome; `iter` is the last read made through an iterator.  A call  *)
(* that throws leaves the package as the call left it, and ok = FALSE.     *)
(***************************************************************************)
NoCall == [op |-> "none", value |-> U64Zero, n |-> 0, ok |-> TRUE,
           pre |-> EmptyPackage, calls |-> 0]
NoRead == [op |-> "none", n |-> 0, zeros |-> FALSE, ok |-> TRUE,
           value |-> U64Zero, start |-> 0, pos |-> 0]
NoHuff == [phase |-> "none"]
NoCodec == [phase |-> "none"]

Called(op, value, n, ok) ==
    [op |-> op, value |-> value, n |-> n, ok |-> ok, pre |-> package,
     calls |-> last.calls + (IF ok THEN 1 ELSE 0)]

\* an asymmetric bit pattern on w bits: bits 0, 1, 4, 7, 10, ...
Pattern(w) == {i \in 0 .. (w - 1) : i = 0 \/ i % 3 = 1}

\* (value, width) pairs offered in call sequences: an empty write, values
\* that fit (within a byte, across bytes), values that do not fit, too wide
CallInputs ==
    {<<U64Zero, 0>>, <<U64One, 0>>, <<Pattern(3), 3>>, <<{3}, 3>>,
     <<Pattern(12), 12>>, <<U64Zero, BitsPerInteger + 1>>}

\* packages offered to write(const Package&): a few bits, and more than
\* one 64-bit chunk
OtherPackages ==
    {write(EmptyPackage, ToInteger(5), 3),
     write_ex(write(EmptyPackage, {0, 63}, BitsPerInteger), ToInteger(2), 3)}

InitPackage ==
    /\ package = EmptyPackage
    /\ iter = NoRead
    /\ last = NoCall
    /\ huff = NoHuff
    /\ codec = NoCodec

Write ==
    /\ last.calls < MaxCalls
    /\ \E in \in CallInputs :
         LET r == write(package, in[1], in[2])
         IN /\ package' = [r EXCEPT !.ok = TRUE]
            /\ last' = Called("write", in[1], in[2], r.ok)
    /\ UNCHANGED <<iter, huff, codec>>

WriteEx ==
    /\ last.calls < MaxCalls
    /\ \E in \in CallInputs :
         LET r == write_ex(package, in[1], in[2])
         IN /\ package' = [r EXCEPT !.ok = TRUE]
            /\ last' = Called("write_ex", in[1], in[2], r.ok)
    /\ UNCHANGED <<iter, huff, codec>>

WritePackage ==
    /\ last.calls < MaxCalls
    /\ \E other \in OtherPackages :
         LET r == write_package(package, other)
         IN /\ package' = [r EXCEPT !.ok = TRUE]
            /\ last' = Called("write_package", U64Zero, other.size, r.ok)
    /\ UNCHANGED <<iter, huff, codec>>

FinalizeByte ==
    /\ last.calls < MaxCalls
    /\ LET r == finalize_byte(package)
       IN /\ package' = [r EXCEPT !.ok = TRUE]
          /\ last' = Called("finalize_byte", U64Zero, 0, r.ok)
    /\ UNCHANGED <<iter, huff, codec>>

NextReadoutCicle ==
    /\ last.calls < MaxCalls
    /\ package' = next_readout_cicle(package)
    /\ last' = Called("next_readout_cicle", U64Zero, 0, TRUE)
    /\ UNCHANGED <<iter, huff, codec>>

NextPackage ==
    \/ Write
    \/ WriteEx
    \/ WritePackage
    \/ FinalizeByte
    \/ NextReadoutCicle

SpecPackage == InitPackage /\ [][NextPackage]_vars

(***************************************************************************)
(* One write followed by one read, over all kinds of width and value.      *)
(***************************************************************************)
\* widths offered to write, write_ex, read and read_ex
Widths == {0, 1, 2, 3, 8, 9, 32, 33, BitsPerInteger - 1, BitsPerInteger,
           BitsPerInteger + 1}

\* values offered with width n: zero, one, the largest n-bit value, the top
\* bit of an n-bit value, an asymmetric pattern, and the two smallest kinds
\* of value that do not fit n bits
ValuesFor(n) ==
    LET w == Min(n, BitsPerInteger)
    IN {U64Zero, U64One, 0 .. (w - 1), {w - 1} \cap U64Max, Pattern(w),
        {w} \cap U64Max, (0 .. w) \cap U64Max}

\* a package that already holds n_bits bits and one readout mark
Prefix(n_bits) == next_readout_cicle(write_ex(EmptyPackage, Pattern(n_bits), n_bits))

InitBits ==
    /\ package \in {Prefix(n_bits) : n_bits \in 0 .. MaxPrefixBits}
    /\ iter = NoRead
    /\ last = NoCall
    /\ huff = NoHuff
    /\ codec = NoCodec

WriteOnce ==
    /\ last.op = "none"
    /\ iter.op = "none"
    /\ \E n \in Widths : \E value \in ValuesFor(n) :
         LET r == write(package, value, n)
         IN /\ package' = [r EXCEPT !.ok = TRUE]
            /\ last' = Called("write", value, n, r.ok)
    /\ UNCHANGED <<iter, huff, codec>>

WriteExOnce ==
    /\ last.op = "none"
    /\ iter.op = "none"
    /\ \E n \in Widths : \E value \in ValuesFor(n) :
         LET r == write_ex(package, value, n)
         IN /\ package' = [r EXCEPT !.ok = TRUE]
            /\ last' = Called("write_ex", value, n, r.ok)
    /\ UNCHANGED <<iter, huff, codec>>

\* where an iterator is placed: begin(), the start of the last write, or a
\* few bits before end()
Starts == {0, last.pre.size} \cup {package.size - k : k \in 0 .. Min(2, package.size)}

ReadWidths == {last.n, 0, 1, 3, BitsPerInteger, BitsPerInteger + 1}

Read ==
    /\ iter.op = "none"
    /\ \E start \in Starts : \E n \in ReadWidths : \E zeros \in BOOLEAN :
         LET r == read(package, start, n, zeros)
         IN iter' = [op |-> "read", n |-> n, zeros |-> zeros, ok |-> r.ok,
                     value |-> r.value, start |-> start, pos |-> r.pos]
    /\ UNCHANGED <<package, last, huff, codec>>

ReadEx ==
    /\ iter.op = "none"
    /\ \E start \in Starts : \E n \in ReadWidths : \E zeros \in BOOLEAN :
         LET r == read_ex(package, start, n, zeros)
         IN iter' = [op |-> "read_ex", n |-> n, zeros |-> zeros, ok |-> r.ok,
                     value |-> r.value, start |-> start, pos |-> r.pos]
    /\ UNCHANGED <<package, last, huff, codec>>

NextBits ==
    \/ WriteOnce
    \/ WriteExOnce
    \/ Read
    \/ ReadEx

SpecBits == InitBits /\ [][NextBits]_vars

\* bit i of the package's stream: (bytes[i / 8] >> (i % 8)) & 1
BitAt(p, i) == (i % BitsPerItem) \in p.data[(i \div BitsPerItem) + 1]

(***************************************************************************)
(* Properties of the Package and its iterator.                             *)
(***************************************************************************)
\* value < 2^n, for n in [0, 64]
Fits(value, n) == n <= BitsPerInteger /\ value \subseteq 0 .. (n - 1)

\* the k bits of p from position start, first bit most significant
MsbFirst(p, start, k) == {j \in 0 .. (k - 1) : BitAt(p, start + k - 1 - j)}

\* C5: for every package state, n in [0,64] and v < 2^n, after
\* write_ex(v, n) an iterator placed at the previous end returns v from
\* read_ex(n) and advances by exactly n bits; the same holds for write(v, n)
\* followed by read(n); the bits written earlier are not altered.
C5_BitPackingBijection ==
    (last.op \in {"write", "write_ex"} /\ Fits(last.value, last.n))
        => /\ \A i \in 0 .. (last.pre.size - 1) :
                BitAt(package, i) = BitAt(last.pre, i)
           /\ ( /\ iter.op = (IF last.op = "write" THEN "read" ELSE "read_ex")
                /\ iter.start = last.pre.size
                /\ iter.n = last.n )
                  => /\ iter.ok
                     /\ iter.value = last.value
                     /\ iter.pos = iter.start + last.n

C5_Witness ==
    /\ last.op = "write_ex" /\ last.n = BitsPerInteger
    /\ last.value = Pattern(BitsPerInteger)
    /\ last.pre.size = 3
    /\ iter.op = "read_ex" /\ iter.start = 3 /\ iter.n = BitsPerInteger
    /\ iter.value = Pattern(BitsPerInteger)

\* C8: after any sequence of write, write_ex, write(other), finalize_byte
\* and next_readout_cicle calls, failing calls included, the size in bits is
\* at most 8 * (number of bytes), every readout position is at most the
\* size, and the readout positions are non-decreasing.
C8_PackageInvariants ==
    /\ package.size <= BitsPerByte * Len(package.data)
    /\ \A i \in 1 .. Len(package.readout) : package.readout[i] <= package.size
    /\ \A i \in 1 .. Len(package.readout) : \A j \in i .. Len(package.readout) :
         package.readout[i] <= package.readout[j]

C8_Witness ==
    /\ Len(package.readout) = 2
    /\ package.readout[1] < package.readout[2]
    /\ package.readout[2] = package.size
    /\ package.size % BitsPerByte # 0
    /\ last.op = "next_readout_cicle"

\* C9: write(value, n) and write_ex(value, n) fail exactly when n > 64 or
\* value >= 2^n (for n < 64); a failing call leaves bytes, size and readout
\* positions unchanged; a succeeding call increases the size by exactly n.
C9_WriteFailsExactly ==
    last.op \in {"write", "write_ex"}
        => /\ ~last.ok <=> (last.n > BitsPerInteger
                            \/ (last.n < BitsPerInteger /\ ~Fits(last.value, last.n)))
           /\ ~last.ok => package = last.pre
           /\ last.ok => /\ package.size = last.pre.size + last.n
                         /\ package.readout = last.pre.readout

C9_Witness ==
    /\ last.op = "write" /\ ~last.ok
    /\ last.n = 3 /\ last.value = {3}
    /\ last.pre.size = 5
    /\ package = Prefix(5)

\* C10 as stated, for every n: with k < n bits remaining, read(n) without
\* use_zeros_for_missing_data fails and leaves the position unchanged; with
\* the flag it returns the k remaining bits, MSB-first, shifted left by
\* n - k and leaves the iterator at the end of the package.
C10_AnyWidth ==
    LET k == package.size - iter.start
    IN (iter.op = "read" /\ k < iter.n)
         => IF iter.zeros
            THEN /\ iter.ok
                 /\ iter.value = {j + (iter.n - k) : j \in MsbFirst(package, iter.start, k)}
                 /\ iter.pos = package.size
            ELSE ~iter.ok /\ iter.pos = iter.start

\* C10, amended: the same for n <= 64; for n > 64 read(n) fails whatever
\* the flag and leaves the position unchanged.
C10_ReaderUnderflow ==
    LET k == package.size - iter.start
    IN (iter.op = "read" /\ k < iter.n)
         => IF iter.zeros /\ iter.n <= BitsPerInteger
            THEN /\ iter.ok
                 /\ iter.value = {j + (iter.n - k) : j \in MsbFirst(package, iter.start, k)}
                 /\ iter.pos = package.size
            ELSE ~iter.ok /\ iter.pos = iter.start

C10_Witness ==
    /\ iter.op = "read" /\ iter.zeros /\ iter.ok
    /\ package.size - iter.start = 2
    /\ iter.n = 3
    /\ iter.value = {2}
    /\ iter.pos = package.size

(***************************************************************************)
(* HuffmanCode: the bits of a code in a uint64_t, bit n being the n-th     *)
(* appended, and their number.                                             *)
(***************************************************************************)
EmptyCode == [code |-> U64Zero, n_bits |-> 0]

\* Append throws "Huffman code is too long."
AppendThrows(c) == c.n_bits + 1 > MaxNumberOfBits

HuffmanCodeAppend_NoShift(c, bit) ==
    [code |-> BitOr(IF bit THEN U64One ELSE U64Zero, c.code), n_bits |-> c.n_bits + 1]

HuffmanCodeAppend(c, bit) ==
    [code |-> BitOr(ShiftLeft(IF bit THEN U64One ELSE U64Zero, c.n_bits), c.code),
     n_bits |-> c.n_bits + 1]

(***************************************************************************)
(* HuffmanTree.  A node is [tree, frequency]; the tree of a leaf is        *)
(* <<letter>>, the tree of a combined node is <<first, second>>.  The      *)
(* table is a bimap: [ok, entries], entries a set of <<letter, code>>      *)
(* with no letter and no code twice; ok = FALSE when construction throws.  *)
(***************************************************************************)
Leaf(letter, f) == [tree |-> <<letter>>, frequency |-> Max(1, f)]

Node(first, second) ==
    [tree |-> <<first.tree, second.tree>>,
     frequency |-> first.frequency + second.frequency]

\* what top() may return: a node of the smallest frequency; which one of
\* several is a matter of the heap's layout
Tops(node_queue) == {n \in node_queue : \A m \in node_queue : n.frequency <= m.frequency}

\* the root nodes the constructor's loop may end with
RECURSIVE RootNodes(_)
RootNodes(node_queue) ==
    IF Cardinality(node_queue) <= 1 THEN node_queue
    ELSE UNION {UNION {RootNodes((node_queue \ {first, second}) \cup {Node(first, second)})
                         : second \in Tops(node_queue \ {first})}
                  : first \in Tops(node_queue)}

\* boost::bimap::insert: refused when the letter or the code is present
TableInsert(table, letter, code) ==
    IF \E e \in table.entries : e[1] = letter \/ e[2] = code THEN table
    ELSE [table EXCEPT !.entries = @ \cup {<<letter, code>>}]

RECURSIVE BuildTable(_, _, _)
BuildTable(tree, code, table) ==
    IF ~table.ok THEN table
    ELSE IF Len(tree) = 1 THEN TableInsert(table, tree[1], code)
    ELSE IF AppendThrows(code) THEN [table EXCEPT !.ok = FALSE]
    ELSE LET done == BuildTable(tree[1], HuffmanCodeAppend(code, FALSE), table)
         IN BuildTable(tree[2], HuffmanCodeAppend(code, TRUE), done)

\* the tables HuffmanTree(letter_frequencies).GetTable() may hold
HuffmanTree(letter_frequencies) ==
    LET node_queue == {Leaf(l, letter_frequencies[l]) : l \in DOMAIN letter_frequencies}
    IN {BuildTable(root_node.tree, EmptyCode, [ok |-> TRUE, entries |-> {}])
          : root_node \in RootNodes(node_queue)}

(***************************************************************************)
(* AlphabetStatistics (the part the coders use): [alphabet, table].        *)
(***************************************************************************)
CheckLetter(statistics, letter) == letter \in statistics.alphabet

\* [ok, code]; ok = FALSE when CheckLetter or left.at(letter) throws
GetHuffmanCode(statistics, letter) ==
    IF CheckLetter(statistics, letter) /\ \E e \in statistics.table : e[1] = letter
    THEN [ok |-> TRUE, code |-> (CHOOSE e \in statistics.table : e[1] = letter)[2]]
    ELSE [ok |-> FALSE, code |-> EmptyCode]

\* [found, letter]
GetLetterFromHuffmanCode(statistics, code) ==
    IF \E e \in statistics.table : e[2] = code
    THEN [found |-> TRUE, letter |-> (CHOOSE e \in statistics.table : e[2] = code)[1]]
    ELSE [found |-> FALSE, letter |-> 0]

(***************************************************************************)
(* HuffmanEncoder::EncodeLetter and HuffmanDecoder::DecodeLetter.          *)
(***************************************************************************)
RECURSIVE EncodeLetterLoop(_, _, _)
EncodeLetterLoop(code, p, n) ==
    IF ~(n < code.n_bits) \/ ~p.ok THEN p
    ELSE LET bit == BitAnd(ShiftRight(code.code, n), U64One)
         IN EncodeLetterLoop(code, write(p, bit, 1), n + 1)

EncodeLetter(statistics, letter, p) ==
    LET c == GetHuffmanCode(statistics, letter)
    IN IF ~c.ok THEN Throw(p) ELSE EncodeLetterLoop(c.code, p, 0)

\* [ok, letter, pos]: the do-while loop reads a bit before it looks up
RECURSIVE DecodeLetterLoop(_, _, _, _)
DecodeLetterLoop(statistics, p, pos, code) ==
    With(read(p, pos, 1, FALSE), LAMBDA r :
        IF ~r.ok \/ AppendThrows(code) THEN [ok |-> FALSE, letter |-> 0, pos |-> r.pos]
        ELSE With(HuffmanCodeAppend(code, r.value # U64Zero), LAMBDA next :
                 With(GetLetterFromHuffmanCode(statistics, next), LAMBDA found :
                     IF found.found
                     THEN [ok |-> TRUE, letter |-> found.letter, pos |-> r.pos]
                     ELSE DecodeLetterLoop(statistics, p, r.pos, next))))

DecodeLetter(statistics, p, pos) == DecodeLetterLoop(statistics, p, pos, EmptyCode)

(***************************************************************************)
(* The Huffman harness: a table is built from a letter -> frequency map,   *)
(* letters are encoded into `package`, then decoded from its beginning.    *)
(***************************************************************************)
\* the non-empty maps: letters 0 .. k-1; a letter never counted, counted
\* once, or counted MaxFrequency times
FrequencyMaps ==
    UNION {[0 .. (k - 1) -> {0, 1, MaxFrequency}] : k \in 1 .. MaxLetters}

InitHuffman ==
    /\ package = EmptyPackage
    /\ iter = NoRead
    /\ last = NoCall
    /\ huff = NoHuff
    /\ codec = NoCodec

\* HuffmanTree(letter_frequencies) and the statistics made of its table
BuildHuffmanTree ==
    /\ huff.phase = "none"
    /\ \E letter_frequencies \in FrequencyMaps :
         \E table \in HuffmanTree(letter_frequencies) :
           huff' = [phase |-> IF table.ok THEN "built" ELSE "failed",
                    letter_frequencies |-> letter_frequencies,
                    statistics |-> [alphabet |-> DOMAIN letter_frequencies,
                                    table |-> table.entries],
                    letters |-> <<>>, decoded |-> <<>>, consumed |-> <<>>,
                    decode_ok |-> TRUE]
    /\ UNCHANGED <<package, iter, last, codec>>

EncodeNextLetter ==
    /\ huff.phase = "built"
    /\ huff.decoded = <<>> /\ huff.decode_ok
    /\ Len(huff.letters) < MaxSequence
    /\ \E letter \in huff.statistics.alphabet :
         LET r == EncodeLetter(huff.statistics, letter, package)
         IN /\ r.ok
            /\ package' = r
            /\ huff' = [huff EXCEPT !.letters = Append(@, letter)]
    /\ UNCHANGED <<iter, last, codec>>

DecodeNextLetter ==
    /\ huff.phase = "built"
    /\ huff.decode_ok
    /\ Len(huff.decoded) < Len(huff.letters)
    /\ LET r == DecodeLetter(huff.statistics, package, iter.pos)
       IN /\ iter' = [iter EXCEPT !.op = "decode", !.start = iter.pos, !.pos = r.pos,
                                  !.ok = r.ok]
          /\ huff' = [huff EXCEPT !.decode_ok = r.ok,
                                  !.decoded = IF r.ok THEN Append(@, r.letter) ELSE @,
                                  !.consumed = IF r.ok THEN Append(@, r.pos - iter.pos) ELSE @]
    /\ UNCHANGED <<package, last, codec>>

NextHuffman ==
    \/ BuildHuffmanTree
    \/ EncodeNextLetter
    \/ DecodeNextLetter

SpecHuffman == InitHuffman /\ [][NextHuffman]_vars

\* code a is a prefix, in append order, of code b
IsPrefix(a, b) == a.n_bits <= b.n_bits /\ a.code = b.code \cap (0 .. (a.n_bits - 1))

\* C6 as stated: for every table built from a non-empty map, single-letter
\* and zero-frequency maps included, and every sequence of letters, the
\* letters written by EncodeLetter are returned in order by DecodeLetter,
\* each decode consuming exactly the bits of the letter's code.
C6_LetterRoundTrip ==
    huff.phase = "built"
        => /\ huff.decode_ok
           /\ \A i \in 1 .. Len(huff.decoded) :
                /\ huff.decoded[i] = huff.letters[i]
                /\ huff.consumed[i] =
                     GetHuffmanCode(huff.statistics, huff.letters[i]).code.n_bits

\* C6 for the maps with two letters or more (what the code does achieve)
C6_RoundTripTwoLettersOrMore ==
    (huff.phase = "built" /\ Cardinality(huff.statistics.alphabet) >= 2)
        => /\ huff.decode_ok
           /\ \A i \in 1 .. Len(huff.decoded) :
                /\ huff.decoded[i] = huff.letters[i]
                /\ huff.consumed[i] =
                     GetHuffmanCode(huff.statistics, huff.letters[i]).code.n_bits

\* C7: the table assigns exactly one code to every letter of the map,
\* zero-frequency letters included; distinct letters get distinct
\* (bits, n_bits) codes; no code is a prefix of the code of another letter.
C7_TableWellFormed ==
    huff.phase # "none"
        => /\ huff.phase = "built"
           /\ \A l \in DOMAIN huff.letter_frequencies :
                Cardinality({e \in huff.statistics.table : e[1] = l}) = 1
           /\ \A e \in huff.statistics.table : e[1] \in DOMAIN huff.letter_frequencies
           /\ \A e1 \in huff.statistics.table : \A e2 \in huff.statistics.table :
                e1[1] # e2[1] => e1[2] # e2[2] /\ ~IsPrefix(e1[2], e2[2])

C7_Witness ==
    /\ huff.phase = "built"
    /\ Cardinality(DOMAIN huff.letter_frequencies) = 3
    /\ huff.letter_frequencies[0] = 0
    /\ huff.letter_frequencies[1] = 0
    /\ huff.letter_frequencies[2] = 2
    /\ <<2, [code |-> U64One, n_bits |-> 1]>> \in huff.statistics.table
    /\ <<0, [code |-> {1}, n_bits |-> 2]>> \in huff.statistics.table
    /\ <<1, [code |-> U64Zero, n_bits |-> 2]>> \in huff.statistics.table

(***************************************************************************)
(* Pixels and layouts.  A Pixel is <<row, column>>; std::map<Pixel, Adc>   *)
(* is the sequence of its <<pixel, adc>> entries in key order (row, then   *)
(* column).                                                                *)
(***************************************************************************)
\* Position::operator<
PixelLess(a, b) == a[1] < b[1] \/ (a[1] = b[1] /\ a[2] < b[2])

\* std::ceil(static_cast<double>(a) / b), exact for the sizes of the model
CeilDiv(a, b) == (a + b - 1) \div b

\* RegionLayout::BitsPerValue: ceil(log2(double(max_value))), max_value >= 1
BitsPerValue(max_value) ==
    CHOOSE k \in 0 .. 30 : 2 ^ k >= max_value /\ (k = 0 \/ 2 ^ (k - 1) < max_value)

RegionLayout(n_rows, n_columns) == [n_rows |-> n_rows, n_columns |-> n_columns]

GetNumberOfPixels(layout) == layout.n_rows * layout.n_columns

BitsPerId(layout) == BitsPerValue(GetNumberOfPixels(layout))

\* TRUE when CheckPixel does not throw
CheckPixel(layout, pixel) ==
    /\ ~(pixel[1] < 0 \/ pixel[1] >= layout.n_rows)
    /\ ~(pixel[2] < 0 \/ pixel[2] >= layout.n_columns)

\* GetPixelId, for a pixel that passes CheckPixel
GetPixelId(layout, pixel) == pixel[1] * layout.n_columns + pixel[2]

GetPixel_ByRows(layout, pixel_id) ==
    LET column == pixel_id % layout.n_rows
        row == (pixel_id - column) \div layout.n_rows
    IN [ok |-> CheckPixel(layout, <<row, column>>), pixel |-> <<row, column>>]

\* GetPixel: [ok, pixel]; ok = FALSE when CheckPixel throws
GetPixel(layout, pixel_id) ==
    LET column == pixel_id % layout.n_columns
        row == (pixel_id - column) \div layout.n_columns
    IN [ok |-> CheckPixel(layout, <<row, column>>), pixel |-> <<row, column>>]

\* MultiRegionLayout(n_rows, n_columns, region_layout)
MultiRegionLayoutOfTile(n_rows, n_columns, region_layout) ==
    LET n_region_rows == CeilDiv(n_rows, region_layout.n_rows)
        n_region_columns == CeilDiv(n_columns, region_layout.n_columns)
    IN [n_rows |-> n_rows, n_columns |-> n_columns,
        region_layout |-> region_layout,
        n_region_rows |-> n_region_rows,
        n_region_columns |-> n_region_columns,
        n_last_region_rows |-> n_rows - (n_region_rows - 1) * region_layout.n_rows,
        n_last_region_columns |->
            n_columns - (n_region_columns - 1) * region_layout.n_columns]

\* MultiRegionLayout(n_rows, n_columns, n_region_rows, n_region_columns)
MultiRegionLayoutOfGrid(n_rows, n_columns, n_region_rows, n_region_columns) ==
    MultiRegionLayoutOfTile(n_rows, n_columns,
        RegionLayout(CeilDiv(n_rows, n_region_rows), CeilDiv(n_columns, n_region_columns)))

GetNumberOfRegions(multi_layout) ==
    multi_layout.n_region_rows * multi_layout.n_region_columns

ConvertToRegionPixel_ByRows(multi_layout, pixel) ==
    LET region_row_index == pixel[1] \div multi_layout.region_layout.n_rows
        region_column_index == pixel[2] \div multi_layout.region_layout.n_columns
    IN [region_id |-> region_row_index * multi_layout.n_region_rows + region_column_index,
        region_pixel |-> <<pixel[1] % multi_layout.region_layout.n_rows,
                           pixel[2] % multi_layout.region_layout.n_columns>>]

\* ConvertToRegionPixel: [region_id, region_pixel]
ConvertToRegionPixel(multi_layout, pixel) ==
    LET region_row_index == pixel[1] \div multi_layout.region_layout.n_rows
        region_column_index == pixel[2] \div multi_layout.region_layout.n_columns
    IN [region_id |-> region_row_index * multi_layout.n_region_columns + region_column_index,
        region_pixel |-> <<pixel[1] % multi_layout.region_layout.n_rows,
                           pixel[2] % multi_layout.region_layout.n_columns>>]

ConvertFromRegionPixel(multi_layout, region_id, region_pixel) ==
    LET region_column_index == region_id % multi_layout.n_region_columns
        region_row_index == (region_id - region_column_index) \div multi_layout.n_region_columns
    IN <<region_row_index * multi_layout.region_layout.n_rows + region_pixel[1],
         region_column_index * multi_layout.region_layout.n_columns + region_pixel[2]>>

GetRegionId(multi_layout, region_row_index, region_column_index) ==
    region_row_index * multi_layout.n_region_columns + region_column_index

\* ActualRegionLayout: the layout of a region, clipped in the last row and
\* the last column of regions
ActualRegionLayout(multi_layout, region_id) ==
    LET region_column_index == region_id % multi_layout.n_region_columns
        region_row_index == (region_id - region_column_index) \div multi_layout.n_region_columns
        region_n_columns == IF region_column_index + 1 = multi_layout.n_region_columns
                            THEN multi_layout.n_last_region_columns
                            ELSE multi_layout.region_layout.n_columns
        region_n_rows == IF region_row_index + 1 = multi_layout.n_region_rows
                         THEN multi_layout.n_last_region_rows
                         ELSE multi_layout.region_layout.n_rows
    IN RegionLayout(region_n_rows, region_n_columns)

\* MultiRegionLayout::operator== (the outer dimensions are not compared)
SameMultiRegionLayout(a, b) ==
    /\ a.region_layout = b.region_layout
    /\ a.n_region_rows = b.n_region_rows
    /\ a.n_region_columns = b.n_region_columns

(***************************************************************************)
(* PixelRegion and PixelMultiRegion (Chip).  A PixelRegion is              *)
(* [region_layout, pixels]; a Chip adds multi_region_layout and regions,   *)
(* the vector of sub-regions (index region_id + 1), each either the null   *)
(* pointer (active = FALSE) or an allocated PixelRegion of                 *)
(* multi_region_layout.region_layout.  Loops over pixels are folded by     *)
(* halving the index range, which visits the elements in the same order.   *)
(***************************************************************************)
MapCount(pixels, pixel) == \E i \in 1 .. Len(pixels) : pixels[i][1] = pixel

\* pixels[pixel] = adc on a map that does not hold the pixel
MapInsert(pixels, pixel, adc) ==
    IF Len(pixels) = 0 \/ PixelLess(pixels[Len(pixels)][1], pixel)
    THEN Append(pixels, <<pixel, adc>>)
    ELSE SelectSeq(pixels, LAMBDA e : PixelLess(e[1], pixel))
             \o << <<pixel, adc>> >>
             \o SelectSeq(pixels, LAMBDA e : PixelLess(pixel, e[1]))

PixelRegion(region_layout) == [region_layout |-> region_layout, pixels |-> <<>>]

PixelRegionAddPixel_NoPresenceCheck(region, pixel, adc) ==
    IF ~CheckPixel(region.region_layout, pixel)
    THEN [ok |-> FALSE, region |-> region]
    ELSE [ok |-> TRUE,
          region |-> [region EXCEPT !.pixels = MapInsert(region.pixels, pixel, adc)]]

\* PixelRegion::AddPixel: [ok, region]; ok = FALSE when it throws
PixelRegionAddPixel(region, pixel, adc) ==
    IF ~CheckPixel(region.region_layout, pixel) \/ MapCount(region.pixels, pixel)
    THEN [ok |-> FALSE, region |-> region]
    ELSE [ok |-> TRUE,
          region |-> [region EXCEPT !.pixels = MapInsert(region.pixels, pixel, adc)]]

ByRow(first, second) ==
    IF first[1][1] = second[1][1] THEN first[1][2] < second[1][2]
    ELSE first[1][1] < second[1][1]

ByColumn(first, second) ==
    IF first[1][2] = second[1][2] THEN first[1][1] < second[1][1]
    ELSE first[1][2] < second[1][2]

\* PixelRegion::GetOrderedPixels for the two orderings it supports
PixelRegionGetOrderedPixels(region, ordering) ==
    IF ordering = "ByRow" THEN SortSeq(region.pixels, LAMBDA a, b : ByRow(a, b))
    ELSE SortSeq(region.pixels, LAMBDA a, b : ByColumn(a, b))

GetAdc(region, pixel) ==
    IF MapCount(region.pixels, pixel)
    THEN (CHOOSE e \in {region.pixels[i] : i \in 1 .. Len(region.pixels)} : e[1] = pixel)[2]
    ELSE 0

\* the loop compares the entries pairwise in map order
HasSamePixels(this, other) ==
    /\ Len(this.pixels) = Len(other.pixels)
    /\ \A i \in 1 .. Len(this.pixels) : this.pixels[i] = other.pixels[i]

NoRegion == [active |-> FALSE, pixels |-> <<>>]

AddPixelToRegion_GlobalPixel(chip, pixel, adc) ==
    IF GetNumberOfRegions(chip.multi_region_layout) <= 1 THEN chip
    ELSE LET c == ConvertToRegionPixel(chip.multi_region_layout, pixel)
             region == chip.regions[c.region_id + 1]
             added == PixelRegionAddPixel(
                 [region_layout |-> chip.multi_region_layout.region_layout,
                  pixels |-> region.pixels], pixel, adc)
         IN [chip EXCEPT !.regions[c.region_id + 1] =
                 [active |-> TRUE, pixels |-> added.region.pixels]]

AddPixelToRegion(chip, pixel, adc) ==
    IF GetNumberOfRegions(chip.multi_region_layout) <= 1 THEN chip
    ELSE LET c == ConvertToRegionPixel(chip.multi_region_layout, pixel)
             region == chip.regions[c.region_id + 1]
             added == PixelRegionAddPixel(
                 [region_layout |-> chip.multi_region_layout.region_layout,
                  pixels |-> region.pixels], c.region_pixel, adc)
         IN [chip EXCEPT !.regions[c.region_id + 1] =
                 [active |-> TRUE, pixels |-> added.region.pixels]]

RECURSIVE CreateRegionsLoop(_, _, _)
CreateRegionsLoop(chip, lo, hi) ==
    IF lo > hi \/ Len(chip.pixels) < hi THEN chip
    ELSE IF lo = hi
         THEN AddPixelToRegion(chip, chip.pixels[lo][1], chip.pixels[lo][2])
         ELSE LET mid == (lo + hi) \div 2
              IN CreateRegionsLoop(CreateRegionsLoop(chip, lo, mid), mid + 1, hi)

\* a PixelRegion with its pixels, made a PixelMultiRegion of multi_layout
CreateRegions(original, multi_layout) ==
    LET n_regions == GetNumberOfRegions(multi_layout)
        chip == [region_layout |-> original.region_layout,
                 pixels |-> original.pixels,
                 multi_region_layout |-> multi_layout,
                 regions |-> IF n_regions > 1 THEN [k \in 1 .. n_regions |-> NoRegion]
                             ELSE <<>>]
    IN CreateRegionsLoop(chip, 1, Len(chip.pixels))

\* PixelMultiRegion(const MultiRegionLayout&)
Chip(multi_layout) ==
    CreateRegions(PixelRegion(RegionLayout(multi_layout.n_rows, multi_layout.n_columns)),
                  multi_layout)

\* PixelMultiRegion(const PixelRegion&, n_region_rows, n_region_columns)
ChipOfGrid(original, n_region_rows, n_region_columns) ==
    CreateRegions(original,
        MultiRegionLayoutOfGrid(original.region_layout.n_rows, original.region_layout.n_columns,
                                n_region_rows, n_region_columns))

\* PixelMultiRegion(const PixelRegion&, const RegionLayout&)
ChipOfTile(original, region_layout) ==
    CreateRegions(original,
        MultiRegionLayoutOfTile(original.region_layout.n_rows, original.region_layout.n_columns,
                                region_layout))

\* PixelMultiRegion::AddPixel: [ok, chip]
AddPixel(chip, pixel, adc) ==
    LET added == PixelRegionAddPixel(
            [region_layout |-> chip.region_layout, pixels |-> chip.pixels], pixel, adc)
    IN IF ~added.ok THEN [ok |-> FALSE, chip |-> chip]
       ELSE [ok |-> TRUE,
             chip |-> AddPixelToRegion([chip EXCEPT !.pixels = added.region.pixels],
                                       pixel, adc)]

IsRegionActive(chip, region_id) ==
    IF GetNumberOfRegions(chip.multi_region_layout) = 1 THEN Len(chip.pixels) # 0
    ELSE chip.regions[region_id + 1].active

\* GetRegion of an active region
GetRegion(chip, region_id) ==
    IF GetNumberOfRegions(chip.multi_region_layout) = 1
    THEN [region_layout |-> chip.region_layout, pixels |-> chip.pixels]
    ELSE [region_layout |-> chip.multi_region_layout.region_layout,
          pixels |-> chip.regions[region_id + 1].pixels]

(***************************************************************************)
(* DefaultPackageMaker (format SinglePixel).  The file holds two versions  *)
(* of the class; both are modelled.  Make returns a Package whose ok is    *)
(* FALSE when a write threw; Read returns [ok, chip].                      *)
(***************************************************************************)
WritePixelRecord_AdcFirst(p, layout, n_bits_per_adc, pixel, adc) ==
    IF ~p.ok THEN p
    ELSE IF ~CheckPixel(layout, pixel) THEN Throw(p)
    ELSE write(write(p, ToInteger(adc), n_bits_per_adc),
               ToInteger(GetPixelId(layout, pixel)), BitsPerId(layout))

\* one pixel record: pixel_id, then the ADC
WritePixelRecord(p, layout, n_bits_per_adc, pixel, adc) ==
    IF ~p.ok THEN p
    ELSE IF ~CheckPixel(layout, pixel) THEN Throw(p)
    ELSE write(write(p, ToInteger(GetPixelId(layout, pixel)), BitsPerId(layout)),
               ToInteger(adc), n_bits_per_adc)

\* earlier version: the records follow the chip's map, a marker after
\* every n_regions-th pixel and after the last one
RECURSIVE DefaultMakeEarlierLoop(_, _, _, _, _)
DefaultMakeEarlierLoop(p, n_bits_per_adc, chip, lo, hi) ==
    IF lo > hi \/ ~p.ok THEN p
    ELSE IF lo = hi
    THEN MarkIf(WritePixelRecord(p, chip.multi_region_layout, n_bits_per_adc,
                                 chip.pixels[lo][1], chip.pixels[lo][2]),
                \/ lo % GetNumberOfRegions(chip.multi_region_layout) = 0
                \/ lo = Len(chip.pixels))
    ELSE DefaultMakeEarlierLoop(
             DefaultMakeEarlierLoop(p, n_bits_per_adc, chip, lo, (lo + hi) \div 2),
             n_bits_per_adc, chip, (lo + hi) \div 2 + 1, hi)

DefaultMakeEarlier(n_bits_per_adc, chip) ==
    DefaultMakeEarlierLoop(EmptyPackage, n_bits_per_adc, chip, 1, Len(chip.pixels))

\* the pixels of macro-region macro_region_id in chip coordinates
GlobalRegionPixels(chip, macro_region_id) ==
    IF ~IsRegionActive(chip, macro_region_id) THEN <<>>
    ELSE LET region_pixels == GetRegion(chip, macro_region_id).pixels
         IN [i \in 1 .. Len(region_pixels) |->
                <<ConvertFromRegionPixel(chip.multi_region_layout, macro_region_id,
                                         region_pixels[i][1]),
                  region_pixels[i][2]>>]

\* the RegionIterator of every macro-region, in macro_region_id order
RegionIterators(chip) ==
    [k \in 1 .. GetNumberOfRegions(chip.multi_region_layout) |->
        GlobalRegionPixels(chip, k - 1)]

MaxSize(region_iterators) ==
    IF \A k \in DOMAIN region_iterators : Len(region_iterators[k]) = 0 THEN 0
    ELSE CHOOSE m \in {Len(region_iterators[k]) : k \in DOMAIN region_iterators} :
            \A k \in DOMAIN region_iterators : Len(region_iterators[k]) <= m

\* pass n of the round-robin: one pixel of each macro-region that has one left
RECURSIVE DefaultMakePass(_, _, _, _, _, _)
DefaultMakePass(p, n_bits_per_adc, multi_layout, region_iterators, n, k) ==
    IF k > Len(region_iterators) \/ ~p.ok THEN p
    ELSE IF ~(n < Len(region_iterators[k]))
    THEN DefaultMakePass(p, n_bits_per_adc, multi_layout, region_iterators, n, k + 1)
    ELSE DefaultMakePass(
             WritePixelRecord(p, multi_layout, n_bits_per_adc,
                              region_iterators[k][n + 1][1], region_iterators[k][n + 1][2]),
             n_bits_per_adc, multi_layout, region_iterators, n, k + 1)

RECURSIVE DefaultMakeLoop(_, _, _, _, _, _, _)
DefaultMakeLoop(p, n_bits_per_adc, multi_layout, region_iterators, max_size, lo, hi) ==
    IF lo > hi \/ ~p.ok THEN p
    ELSE IF lo = hi
    THEN MarkIf(DefaultMakePass(p, n_bits_per_adc, multi_layout, region_iterators, lo, 1),
                (lo + 1) % 2 = 0 \/ (lo + 1) = max_size)
    ELSE DefaultMakeLoop(
             DefaultMakeLoop(p, n_bits_per_adc, multi_layout, region_iterators,
                             max_size, lo, (lo + hi) \div 2),
             n_bits_per_adc, multi_layout, region_iterators, max_size,
             (lo + hi) \div 2 + 1, hi)

DefaultMake(n_bits_per_adc, chip) ==
    With(RegionIterators(chip), LAMBDA region_iterators :
        DefaultMakeLoop(EmptyPackage, n_bits_per_adc, chip.multi_region_layout,
                        region_iterators, MaxSize(region_iterators),
                        0, MaxSize(region_iterators) - 1))

\* Read (the same in both versions): st is [ok, chip, pos]
RECURSIVE DefaultReadLoop(_, _, _, _)
DefaultReadLoop(p, n_bits_per_adc, layout, st) ==
    IF ~st.ok \/ st.pos = p.size THEN st
    ELSE With(read(p, st.pos, BitsPerId(layout), FALSE), LAMBDA id_read :
         With(read(p, id_read.pos, n_bits_per_adc, FALSE), LAMBDA adc_read :
         With(GetPixel(layout, ToNat(id_read.value)), LAMBDA pixel :
         With(AddPixel(st.chip, pixel.pixel, ToNat(adc_read.value) % 65536), LAMBDA added :
             IF ~id_read.ok \/ ~adc_read.ok \/ ~pixel.ok \/ ~added.ok
             THEN [st EXCEPT !.ok = FALSE]
             ELSE DefaultReadLoop(p, n_bits_per_adc, layout,
                      [ok |-> TRUE, chip |-> added.chip, pos |-> adc_read.pos])))))

\* the chip a Read returns: [ok, chip]
ChipRead(st) == [ok |-> st.ok, chip |-> st.chip]

DefaultRead(n_bits_per_adc, p, layout) ==
    ChipRead(DefaultReadLoop(p, n_bits_per_adc, layout,
                             [ok |-> TRUE, chip |-> Chip(layout), pos |-> 0]))

(***************************************************************************)
(* BlockPackageMaker (formats Region and RegionWithCompressedAdc).  A      *)
(* maker is [adc_stat, readout_unit_layout, n_bits_per_adc]; adc_stat is   *)
(* a statistics record with present = FALSE for the null pointer.          *)
(***************************************************************************)
NoStatistics == [present |-> FALSE, alphabet |-> {}, table |-> {}]

GetFullRegionId(macro_region_id, region_id, n_macro_regions) ==
    region_id * n_macro_regions + macro_region_id

SplitFullRegionId(full_region_id, n_macro_regions) ==
    LET macro_region_id == full_region_id % n_macro_regions
    IN [macro_region_id |-> macro_region_id,
        region_id |-> (full_region_id - macro_region_id) \div n_macro_regions]

\* the PixelMultiRegion made of an active macro-region and the readout unit
PixelArea(chip, macro_region_id, readout_unit_layout) ==
    ChipOfTile(GetRegion(chip, macro_region_id), readout_unit_layout)

ActiveRegions_Descending(pixel_area) ==
    LET n_regions == GetNumberOfRegions(pixel_area.multi_region_layout)
        all == [k \in 1 .. n_regions |-> n_regions - k]
        active == SelectSeq(all, LAMBDA id : IsRegionActive(pixel_area, id))
    IN [i \in 1 .. Len(active) |-> <<active[i], GetRegion(pixel_area, active[i])>>]

\* the active readout regions of a pixel area: <<region_id, region>>
ActiveRegions(pixel_area) ==
    LET n_regions == GetNumberOfRegions(pixel_area.multi_region_layout)
        all == [k \in 1 .. n_regions |-> k - 1]
        active == SelectSeq(all, LAMBDA id : IsRegionActive(pixel_area, id))
    IN [i \in 1 .. Len(active) |-> <<active[i], GetRegion(pixel_area, active[i])>>]

\* region_pixels: the descriptors of the macro-regions with active regions
MacroRegionCollection(chip, readout_unit_layout) ==
    LET n_macro_regions == GetNumberOfRegions(chip.multi_region_layout)
        all == [k \in 1 .. n_macro_regions |-> k - 1]
        active == SelectSeq(all, LAMBDA id : IsRegionActive(chip, id))
        descriptors == [i \in 1 .. Len(active) |->
            [first |-> active[i],
             second |-> ActiveRegions(PixelArea(chip, active[i], readout_unit_layout))]]
    IN SelectSeq(descriptors, LAMBDA d : Len(d.second) # 0)

\* n_regions after the first loop: that of the last active macro-region
LastNumberOfRegions(chip, readout_unit_layout) ==
    LET n_macro_regions == GetNumberOfRegions(chip.multi_region_layout)
        active == {id \in 0 .. (n_macro_regions - 1) : IsRegionActive(chip, id)}
    IN IF active = {} THEN 0
       ELSE LET last_id == CHOOSE id \in active : \A other \in active : other <= id
            IN GetNumberOfRegions(
                   PixelArea(chip, last_id, readout_unit_layout).multi_region_layout)

\* the cells of one readout unit, row by row
RECURSIVE WriteCells(_, _, _, _)
WriteCells(p, maker, region, cell) ==
    LET unit == maker.readout_unit_layout
    IN IF cell = GetNumberOfPixels(unit) \/ ~p.ok THEN p
       ELSE LET adc == GetAdc(region, <<cell \div unit.n_columns, cell % unit.n_columns>>)
            IN WriteCells(IF maker.adc_stat.present
                          THEN EncodeLetter(maker.adc_stat, adc, p)
                          ELSE write(p, ToInteger(adc), maker.n_bits_per_adc),
                          maker, region, cell + 1)

\* one turn of the for loop: the first region left of every macro-region
RECURSIVE BlockMakePass(_, _, _, _, _, _)
BlockMakePass(p, maker, region_pixels, n_macro_regions, n_bits_per_address, k) ==
    IF k > Len(region_pixels) \/ ~p.ok THEN p
    ELSE LET macro_region_id == region_pixels[k].first
             region_id == Head(region_pixels[k].second)[1]
             region == Head(region_pixels[k].second)[2]
             full_region_id == GetFullRegionId(macro_region_id, region_id, n_macro_regions)
             addressed == write(p, ToInteger(full_region_id), n_bits_per_address)
         IN BlockMakePass(WriteCells(addressed, maker, region, 0), maker, region_pixels,
                          n_macro_regions, n_bits_per_address, k + 1)

RECURSIVE BlockMakeLoop(_, _, _, _, _)
BlockMakeLoop(p, maker, region_pixels, n_macro_regions, n_bits_per_address) ==
    IF Len(region_pixels) = 0 \/ ~p.ok THEN p
    ELSE BlockMakeLoop(
             MarkIf(BlockMakePass(p, maker, region_pixels, n_macro_regions,
                                  n_bits_per_address, 1), TRUE),
             maker,
             SelectSeq([k \in 1 .. Len(region_pixels) |->
                           [region_pixels[k] EXCEPT !.second = Tail(@)]],
                       LAMBDA d : Len(d.second) # 0),
             n_macro_regions, n_bits_per_address)

\* BitsPerValue(n_regions * n_macro_regions) of an empty chip is the
\* conversion of -infinity to size_t; no write uses it, the package is empty
BlockMake(maker, chip) ==
    With(MacroRegionCollection(chip, maker.readout_unit_layout), LAMBDA region_pixels :
        IF Len(region_pixels) = 0 THEN EmptyPackage
        ELSE BlockMakeLoop(EmptyPackage, maker, region_pixels,
                 GetNumberOfRegions(chip.multi_region_layout),
                 BitsPerValue(LastNumberOfRegions(chip, maker.readout_unit_layout)
                                  * GetNumberOfRegions(chip.multi_region_layout))))

\* one cell read back: [ok, letter, pos]
ReadAdc(p, maker, pos) ==
    IF maker.adc_stat.present THEN DecodeLetter(maker.adc_stat, p, pos)
    ELSE With(read(p, pos, maker.n_bits_per_adc, FALSE), LAMBDA r :
             [ok |-> r.ok, letter |-> ToNat(r.value), pos |-> r.pos])

\* the chip pixel of cell `cell` of the readout unit `ids` names
CellPixel(maker, multi_layout, layout, ids, cell) ==
    ConvertFromRegionPixel(multi_layout, ids.macro_region_id,
        ConvertFromRegionPixel(layout, ids.region_id,
            <<cell \div maker.readout_unit_layout.n_columns,
              cell % maker.readout_unit_layout.n_columns>>))

\* the cells of one readout unit read back: st is [ok, chip, pos]
RECURSIVE ReadCells(_, _, _, _, _, _, _)
ReadCells(p, maker, multi_layout, layout, ids, st, cell) ==
    IF cell = GetNumberOfPixels(maker.readout_unit_layout) \/ ~st.ok THEN st
    ELSE With(ReadAdc(p, maker, st.pos), LAMBDA decoded :
         With(IF ~decoded.ok \/ decoded.letter % 65536 = 0
              THEN [ok |-> decoded.ok, chip |-> st.chip]
              ELSE AddPixel(st.chip, CellPixel(maker, multi_layout, layout, ids, cell),
                            decoded.letter % 65536),
              LAMBDA added :
                 IF ~added.ok THEN [st EXCEPT !.ok = FALSE]
                 ELSE ReadCells(p, maker, multi_layout, layout, ids,
                          [ok |-> TRUE, chip |-> added.chip, pos |-> decoded.pos],
                          cell + 1)))

RECURSIVE BlockReadLoop(_, _, _, _, _, _)
BlockReadLoop(p, maker, multi_layout, layout, n_bits_per_address, st) ==
    IF ~st.ok \/ st.pos = p.size THEN st
    ELSE With(read(p, st.pos, n_bits_per_address, FALSE), LAMBDA address :
             IF ~address.ok THEN [st EXCEPT !.ok = FALSE]
             ELSE BlockReadLoop(p, maker, multi_layout, layout, n_bits_per_address,
                      ReadCells(p, maker, multi_layout, layout,
                                SplitFullRegionId(ToNat(address.value),
                                                  GetNumberOfRegions(multi_layout)),
                                [st EXCEPT !.pos = address.pos], 0)))

BlockRead(maker, p, multi_layout) ==
    With(MultiRegionLayoutOfTile(multi_layout.region_layout.n_rows,
                                 multi_layout.region_layout.n_columns,
                                 maker.readout_unit_layout),
         LAMBDA layout :
            ChipRead(BlockReadLoop(p, maker, multi_layout, layout,
                         BitsPerValue(GetNumberOfRegions(layout)
                                          * GetNumberOfRegions(multi_layout)),
                         [ok |-> TRUE, chip |-> Chip(multi_layout), pos |-> 0])))

(***************************************************************************)
(* PixelMultiRegion::GetOrderedPixels and DeltaPackageMaker (format        *)
(* Delta, mode CombinedDelta).  A maker is [readout_unit_layout,           *)
(* ordering, adc_stat, delta_rowcolumn_stat].                              *)
(***************************************************************************)
BitsPerNpixels == 10
SpecialLetter == -1

\* the delta of a pixel to the previous one, modulo the region dimensions
CombinedDelta(layout, pixel, previous_pixel) ==
    <<(pixel[1] + layout.n_rows - previous_pixel[1]) % layout.n_rows,
      (pixel[2] + layout.n_columns - previous_pixel[2]) % layout.n_columns>>

OrderedRegionId_RowMajor(multi_layout, ordering, i) ==
    LET second == multi_layout.n_region_columns
        n == (i - 1) \div second
        k == (i - 1) % second
    IN GetRegionId(multi_layout, n, k)

\* the region visited at step i (from 1) of the two nested loops
OrderedRegionId(multi_layout, ordering, i) ==
    LET second == IF ordering = "ByRegionByRow" THEN multi_layout.n_region_columns
                  ELSE multi_layout.n_region_rows
        n == (i - 1) \div second
        k == (i - 1) % second
    IN IF ordering = "ByRegionByRow" THEN GetRegionId(multi_layout, n, k)
       ELSE GetRegionId(multi_layout, k, n)

RECURSIVE OrderedRegionPixels(_, _, _, _)
OrderedRegionPixels(chip, ordering, lo, hi) ==
    IF lo > hi THEN <<>>
    ELSE IF lo = hi
    THEN GlobalRegionPixels(chip, OrderedRegionId(chip.multi_region_layout, ordering, lo))
    ELSE LET mid == (lo + hi) \div 2
         IN OrderedRegionPixels(chip, ordering, lo, mid)
                \o OrderedRegionPixels(chip, ordering, mid + 1, hi)

GetOrderedPixels(chip, ordering) ==
    IF ordering # "ByRegionByRow" /\ ordering # "ByRegionByColumn"
    THEN PixelRegionGetOrderedPixels(chip, ordering)
    ELSE OrderedRegionPixels(chip, ordering, 1, GetNumberOfRegions(chip.multi_region_layout))

\* DeltaPackageMaker::EncodeLetter
DeltaEncodeLetter(p, stat, letter, abs_value, bits_per_raw_data) ==
    IF ~p.ok THEN p
    ELSE IF letter \in stat.alphabet THEN EncodeLetter(stat, letter, p)
    ELSE write(EncodeLetter(stat, SpecialLetter, p), ToInteger(abs_value),
               bits_per_raw_data)

\* DeltaPackageMaker::DecodeLetter: [ok, has_letter, letter, abs_value, pos]
DeltaDecodeLetter(p, pos, stat, bits_per_raw_data) ==
    With(DecodeLetter(stat, p, pos), LAMBDA decoded :
        IF ~decoded.ok
        THEN [ok |-> FALSE, has_letter |-> FALSE, letter |-> 0, abs_value |-> 0,
              pos |-> pos]
        ELSE IF decoded.letter # SpecialLetter
        THEN [ok |-> TRUE, has_letter |-> TRUE, letter |-> decoded.letter,
              abs_value |-> 0, pos |-> decoded.pos]
        ELSE With(read(p, decoded.pos, bits_per_raw_data, FALSE), LAMBDA raw :
                 [ok |-> raw.ok, has_letter |-> FALSE, letter |-> decoded.letter,
                  abs_value |-> ToNat(raw.value), pos |-> raw.pos]))

EncodePixel(p, maker, layout, pixel, previous_pixel) ==
    IF ~p.ok THEN p
    ELSE IF \/ ~CheckPixel(layout, CombinedDelta(layout, pixel, previous_pixel))
            \/ ~CheckPixel(layout, pixel)
    THEN Throw(p)
    ELSE DeltaEncodeLetter(p, maker.delta_rowcolumn_stat,
                           GetPixelId(layout, CombinedDelta(layout, pixel, previous_pixel)),
                           GetPixelId(layout, pixel), BitsPerId(layout))

\* DecodePixel: [ok, pixel, pos]
DecodePixel(p, pos, maker, layout, previous_pixel) ==
    With(DeltaDecodeLetter(p, pos, maker.delta_rowcolumn_stat, BitsPerId(layout)),
         LAMBDA d :
            IF ~d.ok THEN [ok |-> FALSE, pixel |-> <<0, 0>>, pos |-> pos]
            ELSE IF d.has_letter
            THEN With(GetPixel(layout, d.letter), LAMBDA delta :
                     [ok |-> delta.ok,
                      pixel |-> <<(previous_pixel[1] + delta.pixel[1]) % layout.n_rows,
                                  (previous_pixel[2] + delta.pixel[2]) % layout.n_columns>>,
                      pos |-> d.pos])
            ELSE With(GetPixel(layout, d.abs_value), LAMBDA absolute :
                     [ok |-> absolute.ok, pixel |-> absolute.pixel, pos |-> d.pos]))

\* the ordered pixels of every macro-region, in macro_region_id order
DeltaRegionIterators(maker, chip) ==
    [k \in 1 .. GetNumberOfRegions(chip.multi_region_layout) |->
        IF IsRegionActive(chip, k - 1)
        THEN GetOrderedPixels(PixelArea(chip, k - 1, maker.readout_unit_layout),
                              maker.ordering)
        ELSE <<>>]

\* RegionIterator::previous
PreviousPixel(pixels, current_position) ==
    IF current_position = 0 THEN <<0, 0>> ELSE pixels[current_position][1]

RECURSIVE DeltaMakePass(_, _, _, _, _, _)
DeltaMakePass(p, maker, layout, region_iterators, n, k) ==
    IF k > Len(region_iterators) \/ ~p.ok THEN p
    ELSE IF ~(n < Len(region_iterators[k]))
    THEN DeltaMakePass(p, maker, layout, region_iterators, n, k + 1)
    ELSE DeltaMakePass(
             EncodeLetter(maker.adc_stat, region_iterators[k][n + 1][2],
                 EncodePixel(p, maker, layout, region_iterators[k][n + 1][1],
                             PreviousPixel(region_iterators[k], n))),
             maker, layout, region_iterators, n, k + 1)

RECURSIVE DeltaMakeLoop(_, _, _, _, _, _, _)
DeltaMakeLoop(p, maker, layout, region_iterators, max_size, lo, hi) ==
    IF lo > hi \/ ~p.ok THEN p
    ELSE IF lo = hi
    THEN MarkIf(DeltaMakePass(p, maker, layout, region_iterators, lo, 1),
                (lo + 1) % 2 = 0 \/ (lo + 1) = max_size)
    ELSE DeltaMakeLoop(
             DeltaMakeLoop(p, maker, layout, region_iterators, max_size,
                           lo, (lo + hi) \div 2),
             maker, layout, region_iterators, max_size, (lo + hi) \div 2 + 1, hi)

RECURSIVE WriteTrailer_LastFirst(_, _, _)
WriteTrailer_LastFirst(p, region_iterators, k) ==
    IF k > Len(region_iterators) \/ ~p.ok THEN p
    ELSE WriteTrailer_LastFirst(
             write(p, ToInteger(Len(region_iterators[Len(region_iterators) + 1 - k])),
                   BitsPerNpixels),
             region_iterators, k + 1)

\* the trailer: the number of pixels of every macro-region
RECURSIVE WriteTrailer(_, _, _)
WriteTrailer(p, region_iterators, k) ==
    IF k > Len(region_iterators) \/ ~p.ok THEN p
    ELSE WriteTrailer(write(p, ToInteger(Len(region_iterators[k])), BitsPerNpixels),
                      region_iterators, k + 1)

DeltaMake(maker, chip) ==
    With(DeltaRegionIterators(maker, chip), LAMBDA region_iterators :
    With(DeltaMakeLoop(EmptyPackage, maker, chip.multi_region_layout.region_layout,
                       region_iterators, MaxSize(region_iterators),
                       0, MaxSize(region_iterators) - 1),
         LAMBDA body :
            IF ~(GetNumberOfRegions(chip.multi_region_layout) > 1) THEN body
            ELSE MarkIf(WriteTrailer(body, region_iterators, 1), TRUE)))

MaxOf(counts) ==
    IF Len(counts) = 0 THEN 0
    ELSE CHOOSE m \in {counts[k] : k \in DOMAIN counts} :
            \A k \in DOMAIN counts : counts[k] <= m

\* the trailer read back: [ok, n_pixels]
RECURSIVE ReadTrailer(_, _, _, _)
ReadTrailer(p, pos, n_macro_regions, n_pixels) ==
    IF Len(n_pixels) = n_macro_regions THEN [ok |-> TRUE, n_pixels |-> n_pixels]
    ELSE With(read(p, pos, BitsPerNpixels, FALSE), LAMBDA r :
             IF ~r.ok THEN [ok |-> FALSE, n_pixels |-> n_pixels]
             ELSE ReadTrailer(p, r.pos, n_macro_regions,
                              Append(n_pixels, ToNat(r.value))))

\* pass n of Read: st is [ok, chip, pos, previous_pixel]
RECURSIVE DeltaReadPass(_, _, _, _, _, _, _)
DeltaReadPass(p, maker, multi_layout, n_pixels, st, n, k) ==
    IF k > Len(n_pixels) \/ ~st.ok THEN st
    ELSE IF n_pixels[k] >= 0 /\ n_pixels[k] <= n
    THEN DeltaReadPass(p, maker, multi_layout, n_pixels, st, n, k + 1)
    ELSE With(DecodePixel(p, st.pos, maker, multi_layout.region_layout,
                          st.previous_pixel[k]), LAMBDA located :
         With(DecodeLetter(maker.adc_stat, p, located.pos), LAMBDA decoded :
         With(IF ~located.ok \/ ~decoded.ok THEN [ok |-> FALSE, chip |-> st.chip]
              ELSE AddPixel(st.chip,
                            ConvertFromRegionPixel(multi_layout, k - 1, located.pixel),
                            decoded.letter % 65536),
              LAMBDA added :
                 IF ~added.ok THEN [st EXCEPT !.ok = FALSE]
                 ELSE DeltaReadPass(p, maker, multi_layout, n_pixels,
                          [ok |-> TRUE, chip |-> added.chip, pos |-> decoded.pos,
                           previous_pixel |->
                               [st.previous_pixel EXCEPT ![k] = located.pixel]],
                          n, k + 1))))

RECURSIVE DeltaReadLoop(_, _, _, _, _, _, _)
DeltaReadLoop(p, maker, multi_layout, n_pixels, st, lo, hi) ==
    IF lo > hi \/ ~st.ok \/ st.pos = p.size THEN st
    ELSE IF lo = hi THEN DeltaReadPass(p, maker, multi_layout, n_pixels, st, lo, 1)
    ELSE DeltaReadLoop(p, maker, multi_layout, n_pixels,
             DeltaReadLoop(p, maker, multi_layout, n_pixels, st, lo, (lo + hi) \div 2),
             (lo + hi) \div 2 + 1, hi)

\* the state Read starts from
DeltaReadStart(multi_layout) ==
    [ok |-> TRUE, chip |-> Chip(multi_layout), pos |-> 0,
     previous_pixel |-> [k \in 1 .. GetNumberOfRegions(multi_layout) |-> <<0, 0>>]]

\* with one macro-region max_n_pixels is the largest size_t (n_pixels -1
\* here) and the loop ends at the end of the package, after at most
\* package.size passes, as every pass reads a bit or throws
DeltaRead(maker, p, multi_layout) ==
    IF GetNumberOfRegions(multi_layout) > 1
    THEN IF BitsPerNpixels * GetNumberOfRegions(multi_layout) > p.size
         THEN [ok |-> FALSE, chip |-> Chip(multi_layout)]
         ELSE With(ReadTrailer(p, p.size - BitsPerNpixels * GetNumberOfRegions(multi_layout),
                               GetNumberOfRegions(multi_layout), <<>>),
                   LAMBDA trailer :
                      IF ~trailer.ok THEN [ok |-> FALSE, chip |-> Chip(multi_layout)]
                      ELSE ChipRead(DeltaReadLoop(p, maker, multi_layout, trailer.n_pixels,
                                        DeltaReadStart(multi_layout),
                                        0, MaxOf(trailer.n_pixels) - 1)))
    ELSE ChipRead(DeltaReadLoop(p, maker, multi_layout, <<-1>>,
                                DeltaReadStart(multi_layout), 0, p.size - 1))

(***************************************************************************)
(* AlphabetStatisticsProducer and DictionaryBuilder.  A producer is        *)
(* [n_counts, letter_frequencies]; the builder holds the three producers.  *)
(* The counters are uint64_t and stay far from their limit.                *)
(***************************************************************************)
CreateProducer(begin, end) ==
    [n_counts |-> 0, letter_frequencies |-> [letter \in begin .. (end - 1) |-> 0]]

\* AddCount called `times` times with the same letter
AddCounts(producer, letter, times) ==
    IF times = 0 THEN producer
    ELSE [n_counts |-> producer.n_counts + times,
          letter_frequencies |->
              IF letter \in DOMAIN producer.letter_frequencies
              THEN [producer.letter_frequencies EXCEPT ![letter] = @ + times]
              ELSE (letter :> times) @@ producer.letter_frequencies]

AddCount(producer, letter) == AddCounts(producer, letter, 1)

DictionaryBuilder(config) ==
    [all_adc_prod |-> CreateProducer(0, config.max_adc),
     active_adc_prod |-> CreateProducer(1, config.max_adc),
     delta_row_column_prod |->
         CreateProducer(0, GetNumberOfPixels(config.chip_layout.region_layout))]

RECURSIVE ProcessOrderedPixels(_, _, _, _)
ProcessOrderedPixels(builder, layout, ordered_pixels, n) ==
    IF n > Len(ordered_pixels) THEN builder
    ELSE ProcessOrderedPixels(
             [builder EXCEPT
                 !.active_adc_prod = AddCount(@, ordered_pixels[n][2]),
                 !.delta_row_column_prod =
                     AddCount(@, GetPixelId(layout,
                                     CombinedDelta(layout, ordered_pixels[n][1],
                                         PreviousPixel(ordered_pixels, n - 1))))],
             layout, ordered_pixels, n + 1)

\* the cells of one block: every cell of the region's own layout adds its
\* ADC, 0 for a cell without a pixel
RECURSIVE CountBlock(_, _, _, _)
CountBlock(producer, region, n, zeros) ==
    IF n > Len(region.pixels) THEN AddCounts(producer, 0, zeros)
    ELSE CountBlock(AddCount(producer, region.pixels[n][2]), region, n + 1, zeros)

RECURSIVE ProcessRegionBlocks(_, _, _)
ProcessRegionBlocks(builder, pixel_area, n) ==
    IF n = GetNumberOfRegions(pixel_area.multi_region_layout) THEN builder
    ELSE IF ~IsRegionActive(pixel_area, n) THEN ProcessRegionBlocks(builder, pixel_area, n + 1)
    ELSE LET region == GetRegion(pixel_area, n)
             zeros == GetNumberOfPixels(region.region_layout) - Len(region.pixels)
         IN ProcessRegionBlocks(
                [builder EXCEPT !.all_adc_prod = CountBlock(@, region, 1, zeros)],
                pixel_area, n + 1)

\* the chip a codec or a builder works on: the caller's, or its pixels
\* partitioned again by the grid of chip_layout
SplitChip(chip_layout, original_chip) ==
    IF SameMultiRegionLayout(original_chip.multi_region_layout, chip_layout)
    THEN original_chip
    ELSE ChipOfGrid([region_layout |-> original_chip.region_layout,
                     pixels |-> original_chip.pixels],
                    chip_layout.n_region_rows, chip_layout.n_region_columns)

RECURSIVE AddChipLoop(_, _, _, _)
AddChipLoop(builder, config, chip, n) ==
    IF n = GetNumberOfRegions(config.chip_layout) THEN builder
    ELSE IF ~IsRegionActive(chip, n) THEN AddChipLoop(builder, config, chip, n + 1)
    ELSE With(PixelArea(chip, n, config.readout_unit_layout), LAMBDA pixel_region :
             AddChipLoop(
                 ProcessRegionBlocks(
                     ProcessOrderedPixels(builder, config.chip_layout.region_layout,
                         GetOrderedPixels(pixel_region, config.ordering), 1),
                     pixel_region, 0),
                 config, chip, n + 1))

AddChip(builder, config, original_chip) ==
    AddChipLoop(builder, config, SplitChip(config.chip_layout, original_chip), 0)

\* GetFrequenceyOrderedLetters sorts by frequency, the larger letter first
\* among equal frequencies: TRUE when letter a is sorted before letter b
OrderedBefore(letter_frequencies, a, b) ==
    \/ letter_frequencies[a] < letter_frequencies[b]
    \/ (letter_frequencies[a] = letter_frequencies[b] /\ a > b)

RECURSIVE SumOfFrequencies(_, _)
SumOfFrequencies(letter_frequencies, letters) ==
    IF letters = {} THEN 0
    ELSE LET letter == CHOOSE l \in letters : TRUE
         IN letter_frequencies[letter]
                + SumOfFrequencies(letter_frequencies, letters \ {letter})

RECURSIVE LastLetters_AnyOfATie(_, _, _)
LastLetters_AnyOfATie(letter_frequencies, letters, n) ==
    IF n = 0 \/ letters = {} THEN {}
    ELSE With(CHOOSE a \in letters :
                  \A b \in letters : letter_frequencies[a] >= letter_frequencies[b]
                                        /\ (letter_frequencies[a] = letter_frequencies[b]
                                                => a >= b),
              LAMBDA letter :
                 {letter} \cup LastLetters_AnyOfATie(letter_frequencies,
                                                     letters \ {letter}, n - 1))

\* the last n letters of GetFrequenceyOrderedLetters
RECURSIVE LastLetters(_, _, _)
LastLetters(letter_frequencies, letters, n) ==
    IF n = 0 \/ letters = {} THEN {}
    ELSE With(CHOOSE a \in letters :
                  \A b \in letters : ~OrderedBefore(letter_frequencies, a, b),
              LAMBDA letter :
                 {letter} \cup LastLetters(letter_frequencies, letters \ {letter}, n - 1))

Reduce_DroppedNotCounted(producer, new_alphabet_size, special_letter) ==
    IF \/ new_alphabet_size <= 1
       \/ special_letter \in DOMAIN producer.letter_frequencies
       \/ producer.n_counts = 0
    THEN [ok |-> FALSE, producer |-> producer]
    ELSE IF Cardinality(DOMAIN producer.letter_frequencies) <= new_alphabet_size
    THEN [ok |-> TRUE, producer |-> producer]
    ELSE With(LastLetters(producer.letter_frequencies,
                          DOMAIN producer.letter_frequencies, new_alphabet_size - 1),
              LAMBDA kept :
                 [ok |-> TRUE,
                  producer |->
                      [n_counts |-> producer.n_counts,
                       letter_frequencies |->
                           [letter \in kept \cup {special_letter} |->
                               IF letter = special_letter THEN 0
                               ELSE producer.letter_frequencies[letter]]]])

\* Reduce: [ok, producer]; the last new_alphabet_size - 1 letters of the
\* order are kept and the special letter counts for the others
Reduce(producer, new_alphabet_size, special_letter) ==
    IF \/ new_alphabet_size <= 1
       \/ special_letter \in DOMAIN producer.letter_frequencies
       \/ producer.n_counts = 0
    THEN [ok |-> FALSE, producer |-> producer]
    ELSE IF Cardinality(DOMAIN producer.letter_frequencies) <= new_alphabet_size
    THEN [ok |-> TRUE, producer |-> producer]
    ELSE With(LastLetters(producer.letter_frequencies,
                          DOMAIN producer.letter_frequencies, new_alphabet_size - 1),
              LAMBDA kept :
                 [ok |-> TRUE,
                  producer |->
                      [n_counts |-> producer.n_counts,
                       letter_frequencies |->
                           [letter \in kept \cup {special_letter} |->
                               IF letter = special_letter
                               THEN producer.n_counts
                                        - SumOfFrequencies(producer.letter_frequencies, kept)
                               ELSE producer.letter_frequencies[letter]]]])

\* Produce: the statistics it may return ({} when it throws).  The
\* probabilities and the entropy are left out: the coders do not read them
Produce(producer) ==
    IF producer.n_counts = 0 THEN {}
    ELSE {[present |-> TRUE, alphabet |-> DOMAIN producer.letter_frequencies,
           table |-> table.entries]
             : table \in {t \in HuffmanTree(producer.letter_frequencies) : t.ok}}

\* SaveStatistics: the statistics written to the file ({} when it throws)
SaveStatistics(producer, reduce, max_alphabet_size) ==
    IF reduce /\ Cardinality(DOMAIN producer.letter_frequencies) > max_alphabet_size
    THEN With(Reduce(producer, max_alphabet_size, SpecialLetter), LAMBDA reduced :
             IF reduced.ok THEN Produce(reduced.producer) ELSE {})
    ELSE Produce(producer)

\* operator<< of HuffmanCode: the bits from bit 0 on, as characters
PrintCode(code) == [n \in 1 .. code.n_bits |-> IF (n - 1) \in code.code THEN "1" ELSE "0"]

\* operator>> of HuffmanCode on a token of the characters 0 and 1
RECURSIVE ParseCode(_, _, _)
ParseCode(s_bits, n, code) ==
    IF n > Len(s_bits) THEN code
    ELSE ParseCode(s_bits, n + 1, HuffmanCodeAppend(code, s_bits[n] = "1"))

\* AlphabetStatistics::Write: the name and one line for every letter
WriteStatistics(name, statistics) ==
    [name |-> name,
     lines |-> {<<e[1], PrintCode(e[2])>> : e \in statistics.table}]

\* SaveDictionaries: the files it may write ({} when it throws); a file is
\* the sequence of its blocks
SaveDictionaries(builder, max_alphabet_size) ==
    {<<WriteStatistics("all_adc", all_adc),
       WriteStatistics("active_adc", active_adc),
       WriteStatistics("delta_row_column", delta_row_column)>>
        : all_adc \in SaveStatistics(builder.all_adc_prod, FALSE, max_alphabet_size),
          active_adc \in SaveStatistics(builder.active_adc_prod, FALSE, max_alphabet_size),
          delta_row_column \in
              SaveStatistics(builder.delta_row_column_prod, TRUE, max_alphabet_size)}

\* AlphabetStatistics::Read of a block all of whose codes have characters
ReadStatistics(block) ==
    [present |-> TRUE,
     alphabet |-> {line[1] : line \in block.lines},
     table |-> {<<line[1], ParseCode(line[2], 1, EmptyCode)>> : line \in block.lines}]

\* The constructor of AlphabetStatisticsCollection: [ok, statistics], the
\* statistics by name, NoStatistics for a name not read.  A code without
\* characters leaves nothing for operator>> on its line (only a one-letter
\* alphabet has such a code): it takes the next token, the name of the
\* next block, which is no code, and the constructor throws; at the end
\* of the file the stream fails at its end, which the constructor takes
\* for the regular end, so that the block is missing.
RECURSIVE ReadCollection(_, _, _)
ReadCollection(file, n, statistics) ==
    IF n > Len(file) THEN [ok |-> TRUE, statistics |-> statistics]
    ELSE IF \E line \in file[n].lines : Len(line[2]) = 0
    THEN [ok |-> n = Len(file), statistics |-> statistics]
    ELSE ReadCollection(file, n + 1,
                        [statistics EXCEPT ![file[n].name] = ReadStatistics(file[n])])

AlphabetStatisticsCollection(file) ==
    ReadCollection(file, 1, [all_adc |-> NoStatistics, active_adc |-> NoStatistics,
                             delta_row_column |-> NoStatistics])

(***************************************************************************)
(* ChipDataEncoder.  A configuration is [encoder_format, chip_layout,      *)
(* readout_unit_layout, max_adc, ordering, max_alphabet_size, earlier]     *)
(* (earlier: the earlier version of DefaultPackageMaker is built; the      *)
(* alphabet size is the builder's).  An encoder is [ok, chip_layout,       *)
(* package_maker]; ok = FALSE when the constructor throws.  The maker      *)
(* keeps the statistics it codes with; the collection they come from is    *)
(* not read again.                                                         *)
(***************************************************************************)
PackageMaker(config, adc_stat, delta_rowcolumn_stat) ==
    [encoder_format |-> config.encoder_format,
     earlier |-> config.earlier,
     n_bits_per_adc |-> IF config.encoder_format = "Delta" THEN 0
                        ELSE BitsPerValue(config.max_adc),
     readout_unit_layout |-> config.readout_unit_layout,
     ordering |-> config.ordering,
     adc_stat |-> adc_stat,
     delta_rowcolumn_stat |-> delta_rowcolumn_stat]

\* the encoder of a format that reads no dictionary
ChipDataEncoder(config) ==
    [ok |-> TRUE, chip_layout |-> config.chip_layout,
     package_maker |-> PackageMaker(config, NoStatistics, NoStatistics)]

\* the encoder of a format that reads its dictionary from the file
ChipDataEncoderOfFile(config, file) ==
    With(AlphabetStatisticsCollection(file), LAMBDA source :
    With(IF config.encoder_format = "RegionWithCompressedAdc"
         THEN source.statistics.all_adc ELSE source.statistics.active_adc,
         LAMBDA adc_stat :
    With(IF config.encoder_format = "Delta"
         THEN source.statistics.delta_row_column ELSE NoStatistics,
         LAMBDA delta_rowcolumn_stat :
            [ok |-> /\ source.ok
                    /\ adc_stat.present
                    /\ (config.encoder_format = "Delta" => delta_rowcolumn_stat.present),
             chip_layout |-> config.chip_layout,
             package_maker |-> PackageMaker(config, adc_stat, delta_rowcolumn_stat)])))

Make(package_maker, chip) ==
    CASE package_maker.encoder_format = "SinglePixel" ->
             IF package_maker.earlier
             THEN DefaultMakeEarlier(package_maker.n_bits_per_adc, chip)
             ELSE DefaultMake(package_maker.n_bits_per_adc, chip)
      [] package_maker.encoder_format \in {"Region", "RegionWithCompressedAdc"} ->
             BlockMake(package_maker, chip)
      [] package_maker.encoder_format = "Delta" -> DeltaMake(package_maker, chip)

ReadPackage(package_maker, p, multi_layout) ==
    CASE package_maker.encoder_format = "SinglePixel" ->
             DefaultRead(package_maker.n_bits_per_adc, p, multi_layout)
      [] package_maker.encoder_format \in {"Region", "RegionWithCompressedAdc"} ->
             BlockRead(package_maker, p, multi_layout)
      [] package_maker.encoder_format = "Delta" -> DeltaRead(package_maker, p, multi_layout)

\* ChipDataEncoder::Encode and ChipDataEncoder::Decode
Encode(encoder, original_chip) ==
    Make(encoder.package_maker, SplitChip(encoder.chip_layout, original_chip))

Decode(encoder, p) == ReadPackage(encoder.package_maker, p, encoder.chip_layout)

(***************************************************************************)
(* The codec harness, after TestChipDataEncoder::analyze: an encoder is    *)
(* built from a configuration (for the formats with a dictionary, from     *)
(* the file a DictionaryBuilder saved after its training chips), a chip    *)
(* of chip_layout receives the pixels of an event, is encoded into         *)
(* `package`, and the package is decoded.                                  *)
(***************************************************************************)
Config(encoder_format, chip_layout, readout_unit_layout, max_adc, max_alphabet_size,
       earlier) ==
    [encoder_format |-> encoder_format, chip_layout |-> chip_layout,
     readout_unit_layout |-> readout_unit_layout, max_adc |-> max_adc,
     ordering |-> "ByRegionByColumn", max_alphabet_size |-> max_alphabet_size,
     earlier |-> earlier]

\* the coordinates pixels are taken from: the first one, those around the
\* first tile boundary and the last one
EdgeCoordinates(n, tile) == {0, tile - 1, tile, n - 1} \cap (0 .. (n - 1))

\* the pixels events are made of: those at the edge coordinates; of a
\* layout with large regions, the second pixel of the first row only (its
\* delta is the one between the neighbours of a row)
PixelChoices(multi_layout) ==
    IF GetNumberOfPixels(multi_layout.region_layout) >= 2 ^ BitsPerNpixels
    THEN {<<0, 1>>}
    ELSE EdgeCoordinates(multi_layout.n_rows, multi_layout.region_layout.n_rows)
             \X EdgeCoordinates(multi_layout.n_columns,
                                multi_layout.region_layout.n_columns)

AdcChoices(config) == {1, config.max_adc}

\* the events of at most n pixels, each the list of its <<pixel, adc>> in
\* the order of the pixels
RECURSIVE Events(_, _)
Events(config, n) ==
    IF n = 0 THEN {<<>>}
    ELSE LET shorter == Events(config, n - 1)
         IN shorter \cup
            {Append(event, <<pixel, adc>>) :
                event \in {e \in shorter : Len(e) = n - 1},
                pixel \in PixelChoices(config.chip_layout),
                adc \in AdcChoices(config)}

OrderedEvents(config, n) ==
    {event \in Events(config, n) :
        \A i \in 1 .. (Len(event) - 1) : PixelLess(event[i][1], event[i + 1][1])}

\* the event that fills the first n cells of macro-region 0, row by row,
\* each with ADC 1
DenseEvent(multi_layout, n) ==
    [i \in 1 .. n |->
        <<<<(i - 1) \div multi_layout.region_layout.n_columns,
            (i - 1) % multi_layout.region_layout.n_columns>>, 1>>]

\* the events of a configuration: the short ones and, when macro-region 0
\* holds that many pixels, the two around the largest count of the trailer
ChipEvents(config) ==
    OrderedEvents(config, MaxPixels)
        \cup {DenseEvent(config.chip_layout, n) :
                n \in {m \in {2 ^ BitsPerNpixels - 1, 2 ^ BitsPerNpixels} :
                         /\ m <= GetNumberOfPixels(config.chip_layout.region_layout)
                         /\ config.chip_layout.region_layout.n_rows
                                <= config.chip_layout.n_rows
                         /\ config.chip_layout.region_layout.n_columns
                                <= config.chip_layout.n_columns}}

\* chip.AddPixel for every pixel of the event: [ok, chip]
RECURSIVE AddPixels(_, _, _, _)
AddPixels(st, event, lo, hi) ==
    IF lo > hi \/ ~st.ok THEN st
    ELSE IF lo = hi THEN AddPixel(st.chip, event[lo][1], event[lo][2])
    ELSE LET mid == (lo + hi) \div 2
         IN AddPixels(AddPixels(st, event, lo, mid), event, mid + 1, hi)

NoChip == Chip(MultiRegionLayoutOfGrid(1, 1, 1, 1))

\* the builder after its dictionaries were saved
NoBuilder ==
    [all_adc_prod |-> CreateProducer(0, 0), active_adc_prod |-> CreateProducer(0, 0),
     delta_row_column_prod |-> CreateProducer(0, 0)]

CodecState(phase, config, encoder, chip) ==
    [phase |-> phase, config |-> config, encoder |-> encoder, chip |-> chip,
     builder |-> IF phase = "training" THEN DictionaryBuilder(config) ELSE NoBuilder,
     n_chips |-> 0, trained |-> FALSE,
     decoded |-> [ok |-> FALSE, chip |-> NoChip]]

\* chip.AddPixel for the pixels of an event, on the empty chip
ReadEvent ==
    /\ codec.phase = "constructed"
    /\ \E event \in ChipEvents(codec.config) :
          LET filled == AddPixels([ok |-> TRUE, chip |-> codec.chip], event,
                                  1, Len(event))
          IN /\ filled.ok
             /\ codec' = [codec EXCEPT !.phase = "filled", !.chip = filled.chip]
    /\ UNCHANGED <<package, iter, last, huff>>

EncodeChip ==
    /\ codec.phase = "filled"
    /\ package' = Encode(codec.encoder, codec.chip)
    /\ codec' = [codec EXCEPT !.phase = "encoded"]
    /\ UNCHANGED <<iter, last, huff>>

DecodePackage ==
    /\ codec.phase = "encoded"
    /\ package.ok
    /\ codec' = [codec EXCEPT !.phase = "decoded",
                              !.decoded = Decode(codec.encoder, package)]
    /\ UNCHANGED <<package, iter, last, huff>>

\* DictionaryBuilder::AddChip on the chip of a training event
TrainChip ==
    /\ codec.phase = "training"
    /\ codec.n_chips < MaxTrainingChips
    /\ \E event \in OrderedEvents(codec.config, MaxPixels) :
          LET filled == AddPixels([ok |-> TRUE, chip |-> Chip(codec.config.chip_layout)],
                                  event, 1, Len(event))
          IN /\ filled.ok
             /\ codec' = [codec EXCEPT
                             !.builder = AddChip(@, codec.config, filled.chip),
                             !.n_chips = @ + 1,
                             !.trained = @ \/ Len(event) > 0]
    /\ UNCHANGED <<package, iter, last, huff>>

\* the encoders that may come out of SaveDictionaries followed by the
\* constructor of ChipDataEncoder on the file ({} when saving throws)
LoadedEncoders(config, builder) ==
    {ChipDataEncoderOfFile(config, file) :
        file \in SaveDictionaries(builder, config.max_alphabet_size)}

\* the dictionary is saved and an encoder is constructed from the file,
\* with an empty chip of chip_layout; the builder is not used again
SaveAndLoad ==
    /\ codec.phase = "training"
    /\ \/ \E encoder \in {e \in LoadedEncoders(codec.config, codec.builder) : e.ok} :
             codec' = [codec EXCEPT !.phase = "constructed", !.encoder = encoder,
                                    !.builder = NoBuilder]
       \/ /\ \/ LoadedEncoders(codec.config, codec.builder) = {}
             \/ \E e \in LoadedEncoders(codec.config, codec.builder) : ~e.ok
          /\ codec' = [codec EXCEPT !.phase = "failed", !.builder = NoBuilder]
    /\ UNCHANGED <<package, iter, last, huff>>

(***************************************************************************)
(* The formats without a dictionary: SinglePixel (both versions of the     *)
(* maker) and Region.  The chip is constructed with chip_layout or, for    *)
(* Encode to partition it, with the layout of one region.                  *)
(***************************************************************************)
ChipLayouts ==
    {MultiRegionLayoutOfGrid(2, 2, 1, 1), MultiRegionLayoutOfGrid(2, 4, 1, 2),
     MultiRegionLayoutOfGrid(3, 3, 1, 1), MultiRegionLayoutOfGrid(3, 3, 2, 2),
     MultiRegionLayoutOfTile(2, 2, RegionLayout(3, 3))}

ReadoutUnitLayouts == {RegionLayout(1, 2), RegionLayout(2, 2)}

RawConfigs ==
    {Config("SinglePixel", chip_layout, RegionLayout(2, 2), max_adc, 0, earlier) :
        chip_layout \in ChipLayouts, max_adc \in {2, 3}, earlier \in BOOLEAN}
    \cup
    {Config("Region", chip_layout, readout_unit_layout, max_adc, 0, FALSE) :
        chip_layout \in ChipLayouts, readout_unit_layout \in ReadoutUnitLayouts,
        max_adc \in {2, 3}}

InitRaw ==
    /\ package = EmptyPackage
    /\ iter = NoRead
    /\ last = NoCall
    /\ huff = NoHuff
    /\ \E config \in RawConfigs :
          \E layout \in {config.chip_layout,
                         MultiRegionLayoutOfTile(config.chip_layout.n_rows,
                             config.chip_layout.n_columns,
                             RegionLayout(config.chip_layout.n_rows,
                                          config.chip_layout.n_columns))} :
            codec = CodecState("constructed", config, ChipDataEncoder(config), Chip(layout))

NextRaw ==
    \/ ReadEvent
    \/ EncodeChip
    \/ DecodePackage

SpecRaw == InitRaw /\ [][NextRaw]_vars

(***************************************************************************)
(* Properties of the formats without a dictionary.                         *)
(***************************************************************************)
\* the outcome analyze checks: Encode returns, Decode returns and the
\* decoded chip has the pixels of the chip
RoundTrip ==
    /\ codec.phase = "encoded" => package.ok
    /\ codec.phase = "decoded" =>
          codec.decoded.ok /\ HasSamePixels(codec.chip, codec.decoded.chip)

\* every ADC of the chip is below 2 ^ n_bits_per_adc
AdcRepresentable ==
    \A i \in 1 .. Len(codec.chip.pixels) :
        codec.chip.pixels[i][2] < 2 ^ codec.encoder.package_maker.n_bits_per_adc

\* C1: with the format SinglePixel, for every chip whose pixels lie inside
\* chip_layout and whose ADC values are in [1, max_adc], Encode succeeds and
\* Decode(Encode(chip)) succeeds and returns a chip with the same
\* pixel -> ADC map, for any number of macro-regions.
C1_SinglePixelRoundTrip ==
    codec.config.encoder_format = "SinglePixel" => RoundTrip

\* C2: with the format Region, for every chip inside chip_layout whose ADC
\* values are at least 1 and representable in n_bits_per_adc bits, and for
\* every readout_unit_layout (dividing the macro-region or not), Read of
\* Make of the chip returns a chip with the same pixel -> ADC map.
C2_RegionRoundTrip ==
    (codec.config.encoder_format = "Region" /\ AdcRepresentable) => RoundTrip

(***************************************************************************)
(* The formats with a dictionary.  A DictionaryBuilder of the              *)
(* configuration is trained, its dictionaries are saved and the encoder    *)
(* is constructed from the file; then a chip of chip_layout is encoded     *)
(* and decoded.                                                            *)
(***************************************************************************)
\* the encoder before the dictionary is read
NoEncoder(config) == [ChipDataEncoder(config) EXCEPT !.ok = FALSE]

InitTrained(configs) ==
    /\ package = EmptyPackage
    /\ iter = NoRead
    /\ last = NoCall
    /\ huff = NoHuff
    /\ \E config \in configs :
          codec = CodecState("training", config, NoEncoder(config),
                             Chip(config.chip_layout))

NextTrained ==
    \/ TrainChip
    \/ SaveAndLoad
    \/ ReadEvent
    \/ EncodeChip
    \/ DecodePackage

EncodedConfigs ==
    {Config("RegionWithCompressedAdc", chip_layout, readout_unit_layout, max_adc, 2, FALSE) :
        chip_layout \in {MultiRegionLayoutOfGrid(2, 2, 1, 1),
                         MultiRegionLayoutOfGrid(2, 4, 1, 2)},
        readout_unit_layout \in ReadoutUnitLayouts, max_adc \in {2, 3}}

InitEncoded == InitTrained(EncodedConfigs)

SpecEncoded == InitEncoded /\ [][NextTrained]_vars

\* C3: with the format RegionWithCompressedAdc and a dictionary saved by a
\* DictionaryBuilder of the same configuration after a corpus of at least
\* one pixel, for every chip inside chip_layout with ADC values in
\* [1, max_adc] Encode succeeds and Decode(Encode(chip)) returns a chip
\* with the same pixel -> ADC map: every ADC value in [1, max_adc] has a
\* code in the all_adc alphabet whatever the corpus was.
C3_EncodedRoundTrip ==
    (codec.config.encoder_format = "RegionWithCompressedAdc" /\ codec.trained)
        => RoundTrip

(***************************************************************************)
(* The format Delta, max_alphabet_size 2.  The small configurations take   *)
(* the plain path (regions of 1 x 2 have two deltas, both kept) and the    *)
(* escape path (of the four deltas of a 2 x 2 region one is kept, with     *)
(* the special letter); the large ones have macro-regions of               *)
(* 2 ^ BitsPerNpixels pixels.                                              *)
(***************************************************************************)
DeltaConfigs ==
    {Config("Delta", chip_layout, RegionLayout(2, 2), 3, 2, FALSE) :
        chip_layout \in {MultiRegionLayoutOfGrid(2, 2, 1, 1),
                         MultiRegionLayoutOfGrid(2, 4, 1, 2),
                         MultiRegionLayoutOfTile(2, 2, RegionLayout(3, 3))}}
    \cup
    {Config("Delta", MultiRegionLayoutOfGrid(32, 64, 1, 2), RegionLayout(32, 32), 3, 2, FALSE)}

\* the layouts the chip is constructed with: chip_layout or, of a chip with
\* fewer than 2 ^ BitsPerNpixels pixels, also the layout of one region
CompatibleLayouts(chip_layout) ==
    {chip_layout}
        \cup {MultiRegionLayoutOfTile(chip_layout.n_rows, chip_layout.n_columns,
                  RegionLayout(chip_layout.n_rows, chip_layout.n_columns)) :
              n \in {m \in {GetNumberOfPixels(chip_layout)} : m < 2 ^ BitsPerNpixels}}

InitDelta ==
    /\ package = EmptyPackage
    /\ iter = NoRead
    /\ last = NoCall
    /\ huff = NoHuff
    /\ \E config \in DeltaConfigs :
          \E layout \in CompatibleLayouts(config.chip_layout) :
            codec = CodecState("training", config, NoEncoder(config), Chip(layout))

SpecDelta == InitDelta /\ [][NextTrained]_vars

\* the active_adc alphabet of the dictionary contains every ADC of the chip
AdcInAlphabet ==
    \A i \in 1 .. Len(codec.chip.pixels) :
        codec.chip.pixels[i][2] \in codec.encoder.package_maker.adc_stat.alphabet

\* the combined delta letters Make encodes for the chip Encode hands it
DeltaLetters(encoder, original_chip) ==
    With(SplitChip(encoder.chip_layout, original_chip), LAMBDA chip :
    With(DeltaRegionIterators(encoder.package_maker, chip), LAMBDA region_iterators :
        UNION {{GetPixelId(chip.multi_region_layout.region_layout,
                    CombinedDelta(chip.multi_region_layout.region_layout,
                                  region_iterators[k][n][1],
                                  PreviousPixel(region_iterators[k], n - 1))) :
                  n \in 1 .. Len(region_iterators[k])} :
               k \in DOMAIN region_iterators}))

\* the delta_row_column alphabet contains the delta letter of every pixel
\* or the special letter
DeltaLettersInAlphabet ==
    \/ SpecialLetter \in codec.encoder.package_maker.delta_rowcolumn_stat.alphabet
    \/ DeltaLetters(codec.encoder, codec.chip)
           \subseteq codec.encoder.package_maker.delta_rowcolumn_stat.alphabet

\* C4: with the format Delta, for every chip compatible with chip_layout,
\* with any number of pixels per macro-region and any number of
\* macro-regions, and every dictionary whose active_adc alphabet has every
\* ADC of the chip and whose delta_row_column alphabet has the delta letter
\* of every pixel or the special letter, Read of Make of the chip returns a
\* chip with the same pixel -> ADC map (an escaped pixel is decoded to its
\* absolute position and is the previous pixel of the next delta).
C4_DeltaRoundTrip ==
    (/\ codec.config.encoder_format = "Delta"
     /\ codec.phase \in {"encoded", "decoded"}
     /\ AdcInAlphabet
     /\ DeltaLettersInAlphabet) => RoundTrip

(***************************************************************************)
(* The chip on its own: a chip is constructed and AddPixel is called with  *)
(* pixels inside and outside the layout, present or not, and any ADC;      *)
(* GetOrderedPixels is called with each ordering.  codec holds the chip,   *)
(* the chip before the last AddPixel, that call with its outcome, and the  *)
(* result of the last GetOrderedPixels.                                    *)
(***************************************************************************)
MaxAddPixelCalls == 3

\* one region of the chip's size; two regions; four regions, the last of
\* each row and column clipped to the chip
AddPixelLayouts ==
    {MultiRegionLayoutOfGrid(2, 2, 1, 1),
     MultiRegionLayoutOfGrid(2, 4, 1, 2),
     MultiRegionLayoutOfTile(3, 3, RegionLayout(2, 2))}

\* every pixel of the layout and those next to its four edges
AddPixelInputs(layout) ==
    ((0 .. (layout.n_rows - 1)) \X (0 .. (layout.n_columns - 1)))
        \cup {<<0 - 1, 0>>, <<0, 0 - 1>>, <<layout.n_rows, 0>>, <<0, layout.n_columns>>}

AdcInputs == {0, 1, 2}

Orderings == {"ByRow", "ByColumn", "ByRegionByRow", "ByRegionByColumn"}

\* a PixelRegion of 3 x 3 with four pixels, of which a chip is constructed:
\* two pixels of region 0, one of region 1 between them in the order of the
\* map, one of region 2
OriginalRegion ==
    [region_layout |-> RegionLayout(3, 3),
     pixels |-> << <<<<0, 0>>, 1>>, <<<<0, 2>>, 2>>, <<<<1, 1>>, 1>>, <<<<2, 0>>, 2>> >>]

\* the chips the calls start from: empty ones and the one constructed of
\* OriginalRegion with 2 x 2 regions
ConstructedChips ==
    {Chip(multi_layout) : multi_layout \in AddPixelLayouts}
        \cup {ChipOfTile(OriginalRegion, RegionLayout(2, 2))}

ChipState(chip, before, call, n_calls, ordering, ordered) ==
    [phase |-> "chip", chip |-> chip, before |-> before, call |-> call,
     n_calls |-> n_calls, ordering |-> ordering, ordered |-> ordered]

NoAddPixel == [pixel |-> <<0, 0>>, adc |-> 0, ok |-> FALSE]

InitChip ==
    /\ package = EmptyPackage
    /\ iter = NoRead
    /\ last = NoCall
    /\ huff = NoHuff
    /\ \E chip \in ConstructedChips :
          codec = ChipState(chip, chip, NoAddPixel, 0, "none", <<>>)

\* chip.AddPixel(pixel, adc)
AddPixelCall ==
    /\ codec.n_calls < MaxAddPixelCalls
    /\ \E pixel \in AddPixelInputs(codec.chip.region_layout), adc \in AdcInputs :
          With(AddPixel(codec.chip, pixel, adc), LAMBDA added :
              codec' = ChipState(added.chip, codec.chip,
                                 [pixel |-> pixel, adc |-> adc, ok |-> added.ok],
                                 codec.n_calls + 1, "none", <<>>))
    /\ UNCHANGED <<package, iter, last, huff>>

\* chip.GetOrderedPixels(ordering)
GetOrderedPixelsCall ==
    /\ codec.ordering = "none"
    /\ \E ordering \in Orderings :
          codec' = [codec EXCEPT !.ordering = ordering,
                                 !.ordered = GetOrderedPixels(codec.chip, ordering)]
    /\ UNCHANGED <<package, iter, last, huff>>

NextChip ==
    \/ AddPixelCall
    \/ GetOrderedPixelsCall

SpecChip == InitChip /\ [][NextChip]_vars

\* the <<pixel, adc>> entries of a map
Entries(pixels) == {pixels[i] : i \in 1 .. Len(pixels)}

\* the entries of the allocated sub-regions, in the coordinates of the chip
RegionEntries(chip) ==
    UNION {{<<ConvertFromRegionPixel(chip.multi_region_layout, k - 1, e[1]), e[2]>> :
              e \in Entries(chip.regions[k].pixels)} :
           k \in {r \in DOMAIN chip.regions : chip.regions[r].active}}

\* C11: in every state reached by constructing a Chip with more than one
\* region and calling AddPixel any number of times, with or without success,
\* regions[k] is allocated iff sub-region k holds at least one pixel, and the
\* (ConvertFromRegionPixel(k, local pixel), ADC) of all allocated sub-regions
\* are the entries of the outer pixel -> ADC map.
C11_ChipMirror ==
    (codec.phase = "chip" /\ GetNumberOfRegions(codec.chip.multi_region_layout) > 1) =>
        /\ Len(codec.chip.regions) = GetNumberOfRegions(codec.chip.multi_region_layout)
        /\ \A k \in DOMAIN codec.chip.regions :
              codec.chip.regions[k].active <=> Len(codec.chip.regions[k].pixels) > 0
        /\ RegionEntries(codec.chip) = Entries(codec.chip.pixels)
        /\ Cardinality(RegionEntries(codec.chip))
               = Len(codec.chip.pixels)
        /\ \A k \in DOMAIN codec.chip.regions :
              Cardinality(Entries(codec.chip.regions[k].pixels))
                  = Len(codec.chip.regions[k].pixels)

\* three pixels added to two of the four sub-regions
C11_Witness ==
    /\ codec.phase = "chip"
    /\ GetNumberOfRegions(codec.chip.multi_region_layout) = 4
    /\ codec.n_calls = 3
    /\ codec.call.ok
    /\ Len(codec.chip.pixels) = 3
    /\ codec.chip.regions[1].pixels = << <<<<0, 0>>, 1>>, <<<<1, 1>>, 2>> >>
    /\ codec.chip.regions[4].pixels = << <<<<0, 0>>, 1>> >>
    /\ ~codec.chip.regions[2].active

\* the pixels of a layout
PixelsOf(layout) == (0 .. (layout.n_rows - 1)) \X (0 .. (layout.n_columns - 1))

\* C12: AddPixel fails exactly when the pixel is already present or lies
\* outside the region layout; a failing AddPixel leaves the chip unchanged
\* (the outer map, every sub-region, the ADC stored for a duplicate pixel),
\* and a succeeding AddPixel adds exactly that one pixel with the given ADC.
C12_AddPixelOutcome ==
    (codec.phase = "chip" /\ codec.n_calls > 0) =>
        /\ ~codec.call.ok <=>
              \/ \E e \in Entries(codec.before.pixels) : e[1] = codec.call.pixel
              \/ codec.call.pixel \notin PixelsOf(codec.before.region_layout)
        /\ ~codec.call.ok => codec.chip = codec.before
        /\ codec.call.ok =>
              /\ Entries(codec.chip.pixels)
                     = Entries(codec.before.pixels)
                           \cup {<<codec.call.pixel, codec.call.adc>>}
              /\ Len(codec.chip.pixels) = Len(codec.before.pixels) + 1
              /\ GetAdc(codec.chip, codec.call.pixel) = codec.call.adc
              /\ RegionEntries(codec.chip)
                     = RegionEntries(codec.before)
                           \cup {<<codec.call.pixel, codec.call.adc>> :
                                   k \in DOMAIN codec.chip.regions}
              /\ \A k \in DOMAIN codec.chip.regions :
                    \/ codec.chip.regions[k] = codec.before.regions[k]
                    \/ k = ConvertToRegionPixel(codec.chip.multi_region_layout,
                                                codec.call.pixel).region_id + 1

\* a pixel of ADC 1 is added a second time with ADC 2 and the call fails; a
\* call with a pixel outside the layout failed before
C12_Witness ==
    /\ codec.phase = "chip"
    /\ codec.n_calls = 3
    /\ ~codec.call.ok
    /\ codec.call.pixel = <<1, 3>>
    /\ codec.call.adc = 2
    /\ codec.before.pixels = << <<<<1, 3>>, 1>> >>
    /\ codec.chip.regions[2].pixels = << <<<<1, 1>>, 1>> >>

\* C13: no reachable chip holds an active pixel with ADC = 0: a pixel added
\* with ADC 0 is rejected (not stored), so that the decoders that take a
\* decoded 0 for an inactive cell lose no pixel.
C13_NoZeroAdc ==
    codec.phase = "chip" =>
        /\ \A e \in Entries(codec.chip.pixels) : e[2] # 0
        /\ (codec.n_calls > 0 /\ codec.call.adc = 0) => ~codec.call.ok

(***************************************************************************)
(* The layouts on their own: a MultiRegionLayout is built by one of the    *)
(* two constructors and the conversions are called with the pixels and the *)
(* ids of the layout.  codec holds the layout, the call and its results.   *)
(***************************************************************************)
MaxLayoutSize == 4

LayoutSizes == 1 .. MaxLayoutSize

\* the layouts of both constructors; a region may be larger than the chip
\* and more regions may be asked for than the chip has rows or columns
BuiltLayouts ==
    {MultiRegionLayoutOfTile(n_rows, n_columns, RegionLayout(region_rows, region_columns)) :
        n_rows \in LayoutSizes, n_columns \in LayoutSizes,
        region_rows \in 1 .. (MaxLayoutSize + 1), region_columns \in LayoutSizes}
    \cup
    {MultiRegionLayoutOfGrid(n_rows, n_columns, n_region_rows, n_region_columns) :
        n_rows \in LayoutSizes, n_columns \in LayoutSizes,
        n_region_rows \in 1 .. (MaxLayoutSize + 1), n_region_columns \in LayoutSizes}

LayoutState(multi_layout, op, layout, pixel, pixel_id, to, from, id_pixel, id) ==
    [phase |-> "layout", multi_layout |-> multi_layout, op |-> op, layout |-> layout,
     pixel |-> pixel, pixel_id |-> pixel_id, to |-> to, from |-> from,
     id_pixel |-> id_pixel, id |-> id]

NoConversion == [region_id |-> 0, region_pixel |-> <<0, 0>>]

NoPixel == [ok |-> FALSE, pixel |-> <<0, 0>>]

InitLayout ==
    /\ package = EmptyPackage
    /\ iter = NoRead
    /\ last = NoCall
    /\ huff = NoHuff
    /\ \E multi_layout \in BuiltLayouts :
          codec = LayoutState(multi_layout, "none", multi_layout, <<0, 0>>, 0,
                              NoConversion, <<0, 0>>, NoPixel, 0)

\* ConvertToRegionPixel of a pixel of the layout, then ConvertFromRegionPixel
\* of its result
ConvertPixel ==
    /\ \E pixel \in PixelsOf(codec.multi_layout) :
          With(ConvertToRegionPixel(codec.multi_layout, pixel), LAMBDA to :
              codec' = LayoutState(codec.multi_layout, "convert", codec.multi_layout,
                           pixel, 0, to,
                           ConvertFromRegionPixel(codec.multi_layout, to.region_id,
                                                  to.region_pixel),
                           NoPixel, 0))
    /\ UNCHANGED <<package, iter, last, huff>>

\* the RegionLayouts of the state: the outer one and the one of a region
RegionLayoutsOf(multi_layout) ==
    {RegionLayout(multi_layout.n_rows, multi_layout.n_columns), multi_layout.region_layout}

\* GetPixelId of a pixel of a layout, then GetPixel of the id
GetPixelIdCall ==
    /\ \E layout \in RegionLayoutsOf(codec.multi_layout) :
          \E pixel \in PixelsOf(layout) :
             With(GetPixelId(layout, pixel), LAMBDA pixel_id :
                 codec' = LayoutState(codec.multi_layout, "GetPixelId", layout, pixel,
                              pixel_id, NoConversion, <<0, 0>>,
                              GetPixel(layout, pixel_id), 0))
    /\ UNCHANGED <<package, iter, last, huff>>

\* GetPixel of an id of a layout, then GetPixelId of the pixel
GetPixelCall ==
    /\ \E layout \in RegionLayoutsOf(codec.multi_layout) :
          \E id \in 0 .. (layout.n_rows * layout.n_columns - 1) :
             With(GetPixel(layout, id), LAMBDA id_pixel :
                 codec' = LayoutState(codec.multi_layout, "GetPixel", layout,
                              id_pixel.pixel, id, NoConversion, <<0, 0>>, id_pixel,
                              IF id_pixel.ok THEN GetPixelId(layout, id_pixel.pixel)
                              ELSE 0 - 1))
    /\ UNCHANGED <<package, iter, last, huff>>

NextLayout ==
    \/ ConvertPixel
    \/ GetPixelIdCall
    \/ GetPixelCall

SpecLayout == InitLayout /\ [][NextLayout]_vars

\* C14: for every MultiRegionLayout built by either constructor and every
\* pixel inside the outer layout, ConvertToRegionPixel yields a region_id
\* below GetNumberOfRegions() and a local pixel inside
\* ActualRegionLayout(region_id), ConvertFromRegionPixel of the pair returns
\* the pixel, and distinct pixels have distinct (region_id, local pixel).
C14_MultiRegionBijection ==
    (codec.phase = "layout" /\ codec.op = "convert") =>
        /\ codec.to.region_id \in 0 .. (GetNumberOfRegions(codec.multi_layout) - 1)
        /\ codec.to.region_pixel
               \in PixelsOf(ActualRegionLayout(codec.multi_layout, codec.to.region_id))
        /\ codec.from = codec.pixel
        /\ \A other \in PixelsOf(codec.multi_layout) :
              other # codec.pixel =>
                  ConvertToRegionPixel(codec.multi_layout, other) # codec.to

\* the last pixel of a 3 x 3 chip tiled by 2 x 2 regions is the one pixel
\* of region 3, which is clipped to 1 x 1
C14_Witness ==
    /\ codec.phase = "layout"
    /\ codec.op = "convert"
    /\ codec.multi_layout = MultiRegionLayoutOfTile(3, 3, RegionLayout(2, 2))
    /\ codec.pixel = <<2, 2>>
    /\ codec.to = [region_id |-> 3, region_pixel |-> <<0, 0>>]
    /\ ActualRegionLayout(codec.multi_layout, 3) = RegionLayout(1, 1)
    /\ codec.from = <<2, 2>>

\* C15: for every RegionLayout and every pixel inside it,
\* GetPixel(GetPixelId(p)) = p and GetPixelId(p) < n_rows * n_columns; for
\* every id < n_rows * n_columns, GetPixelId(GetPixel(id)) = id.
C15_LayoutBijection ==
    /\ (codec.phase = "layout" /\ codec.op = "GetPixelId") =>
          /\ codec.pixel_id \in 0 .. (codec.layout.n_rows * codec.layout.n_columns - 1)
          /\ codec.id_pixel.ok
          /\ codec.id_pixel.pixel = codec.pixel
    /\ (codec.phase = "layout" /\ codec.op = "GetPixel") =>
          /\ codec.id_pixel.ok
          /\ codec.pixel \in PixelsOf(codec.layout)
          /\ codec.id = codec.pixel_id

\* id 5 of a 2 x 3 layout is the pixel (1, 2)
C15_Witness ==
    /\ codec.phase = "layout"
    /\ codec.op = "GetPixel"
    /\ codec.layout = RegionLayout(2, 3)
    /\ codec.pixel_id = 5
    /\ codec.id_pixel = [ok |-> TRUE, pixel |-> <<1, 2>>]
    /\ codec.id = 5

\* the place of a pixel in the region-grouped order: the indices of its
\* sub-region, outer loop first, then its row and column
OrderKey(multi_layout, ordering, pixel) ==
    LET region_row == pixel[1] \div multi_layout.region_layout.n_rows
        region_column == pixel[2] \div multi_layout.region_layout.n_columns
    IN IF ordering = "ByRegionByRow"
       THEN <<region_row, region_column, pixel[1], pixel[2]>>
       ELSE <<region_column, region_row, pixel[1], pixel[2]>>

\* lexicographic order of two keys
KeyLess(a, b) ==
    \E i \in 1 .. 4 : a[i] < b[i] /\ \A j \in 1 .. (i - 1) : a[j] = b[j]

\* C16: for the ordering ByRegionByRow (resp. ByRegionByColumn),
\* GetOrderedPixels returns every pixel of the chip exactly once, in global
\* coordinates with its ADC; the pixels of one sub-region are contiguous, the
\* sub-regions come in row-major (resp. column-major: outer loop over the
\* region column, inner over the region row) order, and within a sub-region
\* the pixels are in ascending (row, column) order.
C16_RegionGroupedOrdering ==
    (codec.phase = "chip" /\ codec.ordering \in {"ByRegionByRow", "ByRegionByColumn"}) =>
        /\ Len(codec.ordered) = Len(codec.chip.pixels)
        /\ Entries(codec.ordered) = Entries(codec.chip.pixels)
        /\ \A i \in 1 .. (Len(codec.ordered) - 1) :
              KeyLess(OrderKey(codec.chip.multi_region_layout, codec.ordering,
                               codec.ordered[i][1]),
                      OrderKey(codec.chip.multi_region_layout, codec.ordering,
                               codec.ordered[i + 1][1]))

\* ByRegionByColumn of the chip constructed of OriginalRegion with the pixel
\* (2, 2) added: region 0 with its two pixels, region 2, region 1, region 3
C16_Witness ==
    /\ codec.phase = "chip"
    /\ codec.ordering = "ByRegionByColumn"
    /\ codec.ordered = << <<<<0, 0>>, 1>>, <<<<1, 1>>, 1>>, <<<<2, 0>>, 2>>,
                          <<<<0, 2>>, 2>>, <<<<2, 2>>, 1>> >>

(***************************************************************************)
(* The producer on its own: a producer is constructed, with or without a   *)
(* seeded alphabet, letters are counted, and Reduce and Produce are        *)
(* called.  codec holds the producer, the producer before the last call,   *)
(* that call and what it returned.                                         *)
(* A probability is the pair <<frequency, n_counts>>; the entropy H is     *)
(* held as the fraction 2 ^ (n_counts * H) = n_counts ^ n_counts divided   *)
(* by the product of f ^ f over the letters of frequency f > 0, which is   *)
(* what the sum of -p * log2(p) over p = f / n_counts amounts to.          *)
(***************************************************************************)
MaxCounts == 5

ProducerLetters == 0 .. 3

\* the seeds: none, two letters, three letters
SeededProducers == {CreateProducer(0, 0), CreateProducer(0, 2), CreateProducer(1, 4)}

NewAlphabetSizes == 0 .. 4

\* the special letter of the builder and a letter that may be present
SpecialLetters == {SpecialLetter, 0}

RECURSIVE ProductOfPowers(_, _)
ProductOfPowers(letter_frequencies, letters) ==
    IF letters = {} THEN 1
    ELSE LET letter == CHOOSE l \in letters : TRUE
         IN (letter_frequencies[letter] ^ letter_frequencies[letter])
                * ProductOfPowers(letter_frequencies, letters \ {letter})

\* Produce: original_prob = Real(original_freq) / n_counts of every letter
OriginalProbabilities(producer) ==
    [letter \in DOMAIN producer.letter_frequencies |->
        <<producer.letter_frequencies[letter], producer.n_counts>>]

Entropy_UniformOnly(producer) ==
    [numerator |-> producer.n_counts ^ producer.n_counts, denominator |-> 1]

\* Produce: entropy -= original_prob * log2(original_prob) for original_prob # 0
Entropy(producer) ==
    [numerator |-> producer.n_counts ^ producer.n_counts,
     denominator |->
         ProductOfPowers(producer.letter_frequencies,
             {l \in DOMAIN producer.letter_frequencies : producer.letter_frequencies[l] # 0})]

NoReduced == [ok |-> FALSE, producer |-> CreateProducer(0, 0)]

NoProduced ==
    [ok |-> FALSE, statistics |-> NoStatistics, original_counts |-> 0,
     original_probabilities |-> <<>>, entropy |-> [numerator |-> 1, denominator |-> 1]]

ProducerState(producer, op, new_alphabet_size, special_letter, reduced, produced) ==
    [phase |-> "producer", producer |-> producer, before |-> codec.producer, op |-> op,
     new_alphabet_size |-> new_alphabet_size, special_letter |-> special_letter,
     reduced |-> reduced, produced |-> produced]

InitProducer ==
    /\ package = EmptyPackage
    /\ iter = NoRead
    /\ last = NoCall
    /\ huff = NoHuff
    /\ \E producer \in SeededProducers :
          codec = [phase |-> "producer", producer |-> producer, before |-> producer,
                   op |-> "none", new_alphabet_size |-> 0, special_letter |-> 0,
                   reduced |-> NoReduced, produced |-> NoProduced]

\* producer.AddCount(letter)
AddCountCall ==
    /\ codec.producer.n_counts < MaxCounts
    /\ \E letter \in ProducerLetters :
          codec' = ProducerState(AddCount(codec.producer, letter), "AddCount", 0, letter,
                                 NoReduced, NoProduced)
    /\ UNCHANGED <<package, iter, last, huff>>

\* producer.Reduce(new_alphabet_size, new_name, special_letter)
ReduceCall ==
    /\ \E new_alphabet_size \in NewAlphabetSizes, special_letter \in SpecialLetters :
          codec' = ProducerState(codec.producer, "Reduce", new_alphabet_size,
                                 special_letter,
                                 Reduce(codec.producer, new_alphabet_size, special_letter),
                                 NoProduced)
    /\ UNCHANGED <<package, iter, last, huff>>

\* the reduced producer is the one used from now on (SaveStatistics produces
\* the statistics of the reduced producer)
UseReduced ==
    /\ codec.op = "Reduce"
    /\ codec.reduced.ok
    /\ codec' = ProducerState(codec.reduced.producer, "none", 0, 0, NoReduced, NoProduced)
    /\ UNCHANGED <<package, iter, last, huff>>

\* producer.Produce(): one of the statistics it may return, or the throw
ProduceCall ==
    /\ \/ /\ Produce(codec.producer) = {}
          /\ codec' = ProducerState(codec.producer, "Produce", 0, 0, NoReduced, NoProduced)
       \/ \E statistics \in Produce(codec.producer) :
             codec' = ProducerState(codec.producer, "Produce", 0, 0, NoReduced,
                          [ok |-> TRUE, statistics |-> statistics,
                           original_counts |-> codec.producer.n_counts,
                           original_probabilities |-> OriginalProbabilities(codec.producer),
                           entropy |-> Entropy(codec.producer)])
    /\ UNCHANGED <<package, iter, last, huff>>

NextProducer ==
    \/ AddCountCall
    \/ ReduceCall
    \/ UseReduced
    \/ ProduceCall

SpecProducer == InitProducer /\ [][NextProducer]_vars

\* the sum of the frequencies of a producer
TotalFrequency(producer) ==
    SumOfFrequencies(producer.letter_frequencies, DOMAIN producer.letter_frequencies)

AlphabetSize(producer) == Cardinality(DOMAIN producer.letter_frequencies)

\* C17, as stated: for every producer with at least one count and every
\* Reduce(new_size, new_name, special_letter) that succeeds, the sum of the
\* letter frequencies of the returned producer equals that of the original,
\* the returned alphabet has size min(new_size, |old alphabet|), and
\* special_letter, absent from the original alphabet, is present in the
\* returned alphabet.
C17_SpecialAlwaysPresent ==
    (/\ codec.phase = "producer" /\ codec.op = "Reduce" /\ codec.reduced.ok
     /\ codec.producer.n_counts >= 1) =>
        /\ TotalFrequency(codec.reduced.producer) = TotalFrequency(codec.producer)
        /\ AlphabetSize(codec.reduced.producer)
               = Min(codec.new_alphabet_size, AlphabetSize(codec.producer))
        /\ codec.special_letter \notin DOMAIN codec.producer.letter_frequencies
        /\ codec.special_letter \in DOMAIN codec.reduced.producer.letter_frequencies

\* C17: for every producer with at least one count and every
\* Reduce(new_size, new_name, special_letter) that succeeds, the sum of the
\* letter frequencies of the returned producer equals that of the original,
\* the returned alphabet has size min(new_size, |old alphabet|), and
\* special_letter, absent from the original alphabet, is present in the
\* returned alphabet when the original alphabet has more than new_size
\* letters; otherwise the returned producer is a copy of the original,
\* without special_letter.
C17_ReducePreservation ==
    (/\ codec.phase = "producer" /\ codec.op = "Reduce" /\ codec.reduced.ok
     /\ codec.producer.n_counts >= 1) =>
        /\ TotalFrequency(codec.reduced.producer) = TotalFrequency(codec.producer)
        /\ AlphabetSize(codec.reduced.producer)
               = Min(codec.new_alphabet_size, AlphabetSize(codec.producer))
        /\ codec.special_letter \notin DOMAIN codec.producer.letter_frequencies
        /\ IF AlphabetSize(codec.producer) > codec.new_alphabet_size
           THEN codec.special_letter \in DOMAIN codec.reduced.producer.letter_frequencies
           ELSE /\ codec.reduced.producer = codec.producer
                /\ codec.special_letter
                       \notin DOMAIN codec.reduced.producer.letter_frequencies

\* Reduce to 3 letters of a producer of three letters, one of them seeded
\* and never counted: the copy is returned
C17_Witness ==
    /\ codec.phase = "producer"
    /\ codec.op = "Reduce"
    /\ codec.reduced.ok
    /\ codec.new_alphabet_size = 3
    /\ codec.special_letter = SpecialLetter
    /\ codec.producer.letter_frequencies = (1 :> 2) @@ (2 :> 0) @@ (3 :> 1)
    /\ codec.reduced.producer = codec.producer

\* C18: when the alphabet has more than new_size letters, the reduced
\* producer contains exactly new_size - 1 original letters, each with its
\* original frequency, every retained letter has a frequency >= that of
\* every dropped letter (ties at the cut resolved in favour of the smaller
\* letter value), special_letter carries exactly the sum of the dropped
\* letters' frequencies, n_counts is unchanged, and the original producer is
\* not modified.
C18_ReduceKeepsMostFrequent ==
    (/\ codec.phase = "producer" /\ codec.op = "Reduce" /\ codec.reduced.ok
     /\ AlphabetSize(codec.producer) > codec.new_alphabet_size) =>
        LET f == codec.producer.letter_frequencies
            g == codec.reduced.producer.letter_frequencies
            kept == (DOMAIN g) \ {codec.special_letter}
            dropped == (DOMAIN f) \ kept
        IN /\ Cardinality(kept) = codec.new_alphabet_size - 1
           /\ kept \subseteq DOMAIN f
           /\ codec.special_letter \in DOMAIN g
           /\ \A letter \in kept : g[letter] = f[letter]
           /\ \A letter \in kept, other \in dropped :
                 \/ f[letter] > f[other]
                 \/ (f[letter] = f[other] /\ letter < other)
           /\ g[codec.special_letter] = SumOfFrequencies(f, dropped)
           /\ codec.reduced.producer.n_counts = codec.producer.n_counts
           /\ codec.producer = codec.before

\* Reduce to 2 letters of {1 -> 1, 2 -> 2, 3 -> 2}: of the tie of 2 and 3 the
\* letter 2 is kept
C18_Witness ==
    /\ codec.phase = "producer"
    /\ codec.op = "Reduce"
    /\ codec.reduced.ok
    /\ codec.new_alphabet_size = 2
    /\ codec.producer.letter_frequencies = (1 :> 1) @@ (2 :> 2) @@ (3 :> 2)
    /\ codec.reduced.producer.letter_frequencies = (2 :> 2) @@ (SpecialLetter :> 3)
    /\ codec.reduced.producer.n_counts = 5

\* the code of a letter in the Huffman table of a Statistics
CodeOf(statistics, letter) == (CHOOSE e \in statistics.table : e[1] = letter)[2]

\* n_counts times the expected code length: the sum over the letters of
\* frequency * NumberOfBits(code), the probabilities being frequency / n_counts
RECURSIVE WeightedLength(_, _)
WeightedLength(produced, letters) ==
    IF letters = {} THEN 0
    ELSE LET letter == CHOOSE l \in letters : TRUE
         IN produced.original_probabilities[letter][1]
                    * CodeOf(produced.statistics, letter).n_bits
                + WeightedLength(produced, letters \ {letter})

\* entropy <= L < entropy + 1, with L = s / n and 2 ^ (n * entropy) the
\* fraction of produced.entropy
EntropyBound(produced) ==
    LET s == WeightedLength(produced, DOMAIN produced.original_probabilities)
        n == produced.original_counts
    IN /\ produced.entropy.numerator <= (2 ^ s) * produced.entropy.denominator
       /\ (2 ^ s) * produced.entropy.denominator < (2 ^ n) * produced.entropy.numerator

\* C20, as stated: for every Statistics returned by Produce(), those of
\* producers seeded with letters that were never counted included, the
\* expected code length L = sum over the letters of original_probability(l)
\* * NumberOfBits(code(l)) satisfies entropy <= L < entropy + 1.
C20_EntropyBoundSeeded ==
    (codec.phase = "producer" /\ codec.op = "Produce" /\ codec.produced.ok) =>
        EntropyBound(codec.produced)

\* C20: for every Statistics returned by Produce() of a producer all of
\* whose letters have a frequency of at least 1, the expected code length
\* L = sum over the letters of original_probability(l) * NumberOfBits(code(l))
\* satisfies entropy <= L < entropy + 1.
C20_EntropyBound ==
    (/\ codec.phase = "producer" /\ codec.op = "Produce" /\ codec.produced.ok
     /\ \A letter \in DOMAIN codec.producer.letter_frequencies :
           codec.producer.letter_frequencies[letter] >= 1) =>
        EntropyBound(codec.produced)

\* the frequencies 3, 1, 1 give codes of 1, 2 and 2 bits: L = 7 / 5
C20_Witness ==
    /\ codec.phase = "producer"
    /\ codec.op = "Produce"
    /\ codec.produced.ok
    /\ codec.produced.original_probabilities = (0 :> <<3, 5>>) @@ (1 :> <<1, 5>>) @@ (2 :> <<1, 5>>)
    /\ codec.produced.entropy = [numerator |-> 3125, denominator |-> 27]
    /\ WeightedLength(codec.produced, {0, 1, 2}) = 7

(***************************************************************************)
(* The producer shared by threads.  Each thread issues calls of AddCount,  *)
(* Produce and Reduce on the one producer; a call takes the mutex, runs    *)
(* its statements one step at a time (an increment is a read and a store)  *)
(* and releases the mutex when it returns or throws.  codec holds the      *)
(* producer, the thread that holds the mutex (NoThread when none does),    *)
(* each thread's position, locals and last result, and the number of       *)
(* AddCount calls that returned.  n_counts stays far below the limit of    *)
(* Integer, so IntegerLimitIsReached is false.                             *)
(***************************************************************************)
MaxThreadCalls == 2

Threads == 1 .. 3

NoThread == 0

ThreadLetters == {0, 1}

CanLock_Unlocked(mutex) == TRUE

\* std::unique_lock<std::mutex> lock(mutex) returns when no thread holds the mutex
CanLock(mutex) == mutex = NoThread

NoResult ==
    [ok |-> FALSE, original_counts |-> 0, ordered |-> <<>>, counts |-> 0,
     letter_frequencies |-> <<>>]

IdleThread(n_calls, result) ==
    [pc |-> "idle", op |-> "none", letter |-> 0, value |-> 0, ordered |-> <<>>,
     counts |-> 0, n_calls |-> n_calls, result |-> result]

InitThreads ==
    /\ package = EmptyPackage
    /\ iter = NoRead
    /\ last = NoCall
    /\ huff = NoHuff
    /\ \E producer \in {CreateProducer(0, 0), CreateProducer(0, 2)} :
          codec = [phase |-> "threads", producer |-> producer, mutex |-> NoThread,
                   thread |-> [t \in Threads |-> IdleThread(0, NoResult)],
                   n_add_count |-> 0]

\* the state after thread t took a step
Step(t, thread, producer, mutex) ==
    [codec EXCEPT !.thread[t] = thread, !.producer = producer, !.mutex = mutex]

\* a thread calls AddCount(letter), Produce() or Reduce(2, name, -1)
StartCall ==
    /\ \E t \in Threads :
          /\ codec.thread[t].pc = "idle"
          /\ codec.thread[t].n_calls < MaxThreadCalls
          /\ \E op \in {"AddCount", "Produce", "Reduce"} :
                \E letter \in {l \in ThreadLetters : op = "AddCount" \/ l = 0} :
                   codec' = Step(t, [codec.thread[t] EXCEPT !.pc = "lock", !.op = op,
                                                             !.letter = letter,
                                                             !.result = NoResult],
                                 codec.producer, codec.mutex)
    /\ UNCHANGED <<package, iter, last, huff>>

\* std::unique_lock<std::mutex> lock(mutex)
AcquireLock ==
    /\ \E t \in Threads :
          /\ codec.thread[t].pc = "lock"
          /\ CanLock(codec.mutex)
          /\ codec' = Step(t, [codec.thread[t] EXCEPT !.pc = codec.thread[t].op],
                           codec.producer, t)
    /\ UNCHANGED <<package, iter, last, huff>>

\* ++letter_frequencies[letter]: the read (operator[] gives 0 for a new letter)
AddCountReadFrequency ==
    /\ \E t \in Threads :
          /\ codec.thread[t].pc = "AddCount"
          /\ codec' = Step(t, [codec.thread[t] EXCEPT
                                  !.pc = "store_frequency",
                                  !.value =
                                      IF codec.thread[t].letter
                                             \in DOMAIN codec.producer.letter_frequencies
                                      THEN codec.producer.letter_frequencies[
                                               codec.thread[t].letter]
                                      ELSE 0],
                           codec.producer, codec.mutex)
    /\ UNCHANGED <<package, iter, last, huff>>

\* ++letter_frequencies[letter]: the store
AddCountStoreFrequency ==
    /\ \E t \in Threads :
          /\ codec.thread[t].pc = "store_frequency"
          /\ codec' = Step(t, [codec.thread[t] EXCEPT !.pc = "read_counts"],
                           [codec.producer EXCEPT !.letter_frequencies =
                               (codec.thread[t].letter :> (codec.thread[t].value + 1)) @@ @],
                           codec.mutex)
    /\ UNCHANGED <<package, iter, last, huff>>

\* ++n_counts: the read
AddCountReadCounts ==
    /\ \E t \in Threads :
          /\ codec.thread[t].pc = "read_counts"
          /\ codec' = Step(t, [codec.thread[t] EXCEPT !.pc = "store_counts",
                                                       !.value = codec.producer.n_counts],
                           codec.producer, codec.mutex)
    /\ UNCHANGED <<package, iter, last, huff>>

\* ++n_counts: the store
AddCountStoreCounts ==
    /\ \E t \in Threads :
          /\ codec.thread[t].pc = "store_counts"
          /\ codec' = Step(t, [codec.thread[t] EXCEPT !.pc = "unlock"],
                           [codec.producer EXCEPT !.n_counts = codec.thread[t].value + 1],
                           codec.mutex)
    /\ UNCHANGED <<package, iter, last, huff>>

\* GetFrequenceyOrderedLetters of Produce and of Reduce: throws when n_counts
\* is 0 (Reduce has checked its arguments before), else copies the map
OrderLetters ==
    /\ \E t \in Threads :
          /\ codec.thread[t].pc \in {"Produce", "Reduce"}
          /\ codec' = Step(t,
                 IF codec.producer.n_counts = 0
                    \/ (codec.thread[t].pc = "Reduce"
                          /\ SpecialLetter \in DOMAIN codec.producer.letter_frequencies)
                 THEN [codec.thread[t] EXCEPT !.pc = "unlock"]
                 ELSE [codec.thread[t] EXCEPT
                          !.pc = IF codec.thread[t].pc = "Produce" THEN "probabilities"
                                 ELSE "reduced",
                          !.ordered = codec.producer.letter_frequencies],
                 codec.producer, codec.mutex)
    /\ UNCHANGED <<package, iter, last, huff>>

\* Produce: the loop that divides the ordered frequencies by n_counts
ProduceProbabilities ==
    /\ \E t \in Threads :
          /\ codec.thread[t].pc = "probabilities"
          /\ codec' = Step(t, [codec.thread[t] EXCEPT !.pc = "statistics",
                                                       !.counts = codec.producer.n_counts],
                           codec.producer, codec.mutex)
    /\ UNCHANGED <<package, iter, last, huff>>

\* Produce: the tree and the alphabet of letter_frequencies, and the
\* Statistics with n_counts, the probabilities and the table
ProduceStatistics ==
    /\ \E t \in Threads :
          /\ codec.thread[t].pc = "statistics"
          /\ codec' = Step(t, [codec.thread[t] EXCEPT
                                  !.pc = "unlock",
                                  !.result =
                                      [ok |-> TRUE,
                                       original_counts |-> codec.producer.n_counts,
                                       ordered |-> codec.thread[t].ordered,
                                       counts |-> codec.thread[t].counts,
                                       letter_frequencies |->
                                           codec.producer.letter_frequencies]],
                           codec.producer, codec.mutex)
    /\ UNCHANGED <<package, iter, last, huff>>

\* Reduce: the copy, or the reduced producer with n_counts and the special letter
ReduceCopy ==
    /\ \E t \in Threads :
          /\ codec.thread[t].pc = "reduced"
          /\ codec' = Step(t, [codec.thread[t] EXCEPT !.pc = "unlock",
                                                       !.counts = codec.producer.n_counts],
                           codec.producer, codec.mutex)
    /\ UNCHANGED <<package, iter, last, huff>>

\* the return or the throw: the lock is destroyed and the mutex released
ReleaseLock ==
    /\ \E t \in Threads :
          /\ codec.thread[t].pc = "unlock"
          /\ codec' =
                [Step(t, IdleThread(codec.thread[t].n_calls + 1, codec.thread[t].result),
                      codec.producer, NoThread)
                    EXCEPT !.n_add_count =
                        IF codec.thread[t].op = "AddCount" THEN @ + 1 ELSE @]
    /\ UNCHANGED <<package, iter, last, huff>>

NextThreads ==
    \/ StartCall
    \/ AcquireLock
    \/ AddCountReadFrequency
    \/ AddCountStoreFrequency
    \/ AddCountReadCounts
    \/ AddCountStoreCounts
    \/ OrderLetters
    \/ ProduceProbabilities
    \/ ProduceStatistics
    \/ ReduceCopy
    \/ ReleaseLock

SpecThreads == InitThreads /\ [][NextThreads]_vars

\* C19: under every interleaving of AddCount calls of several threads with
\* concurrent Produce and Reduce calls on the same producer, no increment is
\* lost (when all calls have returned n_counts is the number of AddCount
\* calls and the sum of the letter frequencies), and every Statistics
\* Produce returns is computed from one consistent snapshot in which
\* n_counts is the sum of the frequencies (its probabilities sum to 1).
C19_ProducerLocking ==
    codec.phase = "threads" =>
        /\ (\A t \in Threads : codec.thread[t].pc = "idle") =>
              /\ codec.producer.n_counts = codec.n_add_count
              /\ codec.producer.n_counts = TotalFrequency(codec.producer)
        /\ \A t \in Threads :
              codec.thread[t].result.ok =>
                  /\ codec.thread[t].result.letter_frequencies
                         = codec.thread[t].result.ordered
                  /\ codec.thread[t].result.original_counts = codec.thread[t].result.counts
                  /\ codec.thread[t].result.counts
                         = SumOfFrequencies(codec.thread[t].result.ordered,
                                            DOMAIN codec.thread[t].result.ordered)

\* thread 1 has a Statistics of two counts while thread 2, which counted
\* those, has returned and thread 3 waits for the mutex that thread 1 holds
C19_Witness ==
    /\ codec.phase = "threads"
    /\ codec.mutex = 1
    /\ codec.thread[1].pc = "unlock"
    /\ codec.thread[1].result.ok
    /\ codec.thread[1].result.original_counts = 2
    /\ codec.thread[2].n_calls = 2
    /\ codec.thread[3].pc = "lock"
    /\ codec.thread[3].op = "AddCount"
    /\ codec.n_add_count = 2

(***************************************************************************)
(* The dictionary file as text.  A stream is [tokens, terminated]: the     *)
(* whitespace-separated tokens of the file (a line read by getline is one  *)
(* token) and whether white space follows the last one.  A token is        *)
(* [kind, value] with the kind of text it is: a word, an integer, a real   *)
(* or the characters of a code.  The stream throws std::ifstream::failure  *)
(* for failbit, badbit and eofbit: a read that reaches the end of the      *)
(* stream throws with eof() set ("eof"), a conversion that fails throws    *)
(* without it ("fail"); "error" is any other exception.                    *)
(***************************************************************************)
Token(kind, value) == [kind |-> kind, value |-> value]

\* AlphabetStatistics::Write with the counts and the alphabet of a block;
\* a code without bits prints no character
RECURSIVE WriteRows(_, _)
WriteRows(lines, letters) ==
    IF letters = {} THEN <<>>
    ELSE LET letter == CHOOSE l \in letters : \A other \in letters : l <= other
             line == CHOOSE e \in lines : e[1] = letter
         IN <<Token("integer", letter), Token("real", "probability"),
              Token("integer", Len(line[2]))>>
                \o (IF Len(line[2]) = 0 THEN <<>> ELSE <<Token("bits", line[2])>>)
                \o WriteRows(lines, letters \ {letter})

StatisticsWrite(block) ==
    <<Token("word", block.name),
      Token("word", "number_of_letters"), Token("integer", Cardinality(block.lines)),
      Token("word", "alphabet_entropy"), Token("real", "entropy"),
      Token("word", "original_number_of_counts"), Token("integer", 1),
      Token("word", "Letter Orig_probability Huffman_nbits Huffman_code")>>
        \o WriteRows(block.lines, {line[1] : line \in block.lines})

\* a read of the token at pos reaches the end of the stream
ReachesEnd(is, pos) ==
    pos > Len(is.tokens) \/ (pos = Len(is.tokens) /\ ~is.terminated)

\* operator>> of the type converts the token
Converts(token, type) ==
    CASE type = "string" -> TRUE
      [] type = "integer" -> token.kind = "integer"
      [] type = "real" -> token.kind \in {"integer", "real"}
      [] type = "code" -> token.kind = "bits" \/ (token.kind = "integer" /\ token.value \in {0, 1})

\* is >> a >> b >> ... for the types given: the status of the first read
\* that throws, "ok" when none does
RECURSIVE ReadTokens(_, _, _, _)
ReadTokens(is, pos, types, n) ==
    IF n > Len(types) THEN "ok"
    ELSE IF ReachesEnd(is, pos + n - 1) THEN "eof"
    ELSE IF ~Converts(is.tokens[pos + n - 1], types[n])
    THEN (IF types[n] = "code" THEN "error" ELSE "fail")
    ELSE ReadTokens(is, pos, types, n + 1)

\* operator>> of HuffmanCode on a token that converts
CodeOfToken(token) ==
    IF token.kind = "bits" THEN ParseCode(token.value, 1, EmptyCode)
    ELSE HuffmanCodeAppend(EmptyCode, token.value = 1)

\* AlphabetStatistics::Read, the loop over the rows: st is [status, pos,
\* alphabet, table]
RECURSIVE ReadRows(_, _, _)
ReadRows(is, st, n) ==
    IF n = 0 \/ st.status # "ok" THEN st
    ELSE With(ReadTokens(is, st.pos, <<"integer", "real", "integer", "code">>, 1),
              LAMBDA status :
        IF status # "ok" THEN [st EXCEPT !.status = status]
        ELSE IF is.tokens[st.pos].value \in st.alphabet THEN [st EXCEPT !.status = "error"]
        ELSE ReadRows(is,
                 [status |-> "ok", pos |-> st.pos + 4,
                  alphabet |-> st.alphabet \cup {is.tokens[st.pos].value},
                  table |-> st.table
                      \cup {<<is.tokens[st.pos].value, CodeOfToken(is.tokens[st.pos + 3])>>}],
                 n - 1))

\* AlphabetStatistics::Read: [status, pos, name, statistics]
StatisticsRead(is, pos) ==
    With(ReadTokens(is, pos,
             <<"string", "string", "integer", "string", "real", "string", "integer",
               "string">>, 1),
         LAMBDA status :
        IF status # "ok"
        THEN [status |-> status, pos |-> pos, name |-> "", statistics |-> NoStatistics]
        ELSE With(ReadRows(is, [status |-> "ok", pos |-> pos + 8, alphabet |-> {},
                                table |-> {}],
                           is.tokens[pos + 2].value),
                  LAMBDA st :
                 [status |-> IF st.status = "ok"
                                 /\ (is.tokens[pos + 6].value <= 0 \/ st.alphabet = {})
                             THEN "error" ELSE st.status,
                  pos |-> st.pos,
                  name |-> is.tokens[pos].value,
                  statistics |-> [present |-> TRUE, alphabet |-> st.alphabet,
                                  table |-> st.table]]))

\* The constructor of AlphabetStatisticsCollection on the stream: [ok,
\* statistics], the statistics by name.  The handler of
\* std::ifstream::failure rethrows only when eof() is not set.
RECURSIVE ReadStream(_, _, _)
ReadStream(is, pos, statistics) ==
    With(StatisticsRead(is, pos), LAMBDA stat :
        IF stat.status = "eof" THEN [ok |-> TRUE, statistics |-> statistics]
        ELSE IF stat.status # "ok" \/ stat.name \in DOMAIN statistics
        THEN [ok |-> FALSE, statistics |-> statistics]
        ELSE ReadStream(is, stat.pos, (stat.name :> stat.statistics) @@ statistics))

CollectionOfStream(is) == ReadStream(is, 1, <<>>)

\* at(const std::string&): [outcome, statistics]
at(collection, name) ==
    IF name \notin DOMAIN collection.statistics
    THEN [outcome |-> "Alphabet statistics not found", statistics |-> NoStatistics]
    ELSE [outcome |-> "found", statistics |-> collection.statistics[name]]

AlphabetTypes == {"Adc", "ActiveAdc", "DeltaRow", "DeltaColumn", "DeltaRowColumn"}

alphabetTypeNames ==
    [Adc |-> "all_adc", ActiveAdc |-> "active_adc", DeltaRowColumn |-> "delta_row_column"]

\* at(AlphabetType): alphabetTypeNames.at throws std::out_of_range for a
\* type it does not hold
atType(collection, alphabet_type) ==
    IF alphabet_type \notin DOMAIN alphabetTypeNames
    THEN [outcome |-> "std::out_of_range", statistics |-> NoStatistics]
    ELSE at(collection, alphabetTypeNames[alphabet_type])


(***************************************************************************)
(* Specification of the collection: a dictionary file of up to MaxBlocks   *)
(* blocks, written by AlphabetStatistics::Write and cut after any of its   *)
(* tokens, is loaded, and the collection is asked for the statistics of    *)
(* an alphabet type.                                                       *)
(***************************************************************************)
MaxBlocks == 2

BlockNames == {"all_adc", "active_adc", "delta_row", "delta_column", "delta_row_column"}

BlockTables == {{<<0, <<"0">>>>, <<1, <<"1">>>>}, {<<0, <<>>>>}}

Blocks == {[name |-> name, lines |-> lines] : name \in BlockNames, lines \in BlockTables}

DictionaryFiles == UNION {[1 .. n -> Blocks] : n \in 1 .. MaxBlocks}

RECURSIVE FileText(_, _)
FileText(file, n) ==
    IF n > Len(file) THEN <<>> ELSE StatisticsWrite(file[n]) \o FileText(file, n + 1)

\* the numbers of tokens after which a block of the file ends
BlockBoundaries(file) == {Len(FileText(SubSeq(file, 1, n), 1)) : n \in 0 .. Len(file)}

NoCollection == [ok |-> FALSE, statistics |-> <<>>]

NoAt == [outcome |-> "none", statistics |-> NoStatistics]

CollectionState(phase, file, cut, is, collection, alphabet_type, result) ==
    [phase |-> phase, file |-> file, cut |-> cut, is |-> is, collection |-> collection,
     alphabet_type |-> alphabet_type, result |-> result]

InitCollection ==
    /\ package = EmptyPackage
    /\ iter = NoRead
    /\ last = NoCall
    /\ huff = NoHuff
    /\ \E file \in DictionaryFiles, terminated \in BOOLEAN :
         \E cut \in 0 .. Len(FileText(file, 1)) :
            codec = CollectionState("stream", file, cut,
                        [tokens |-> SubSeq(FileText(file, 1), 1, cut),
                         terminated |-> terminated],
                        NoCollection, "none", NoAt)

\* AlphabetStatisticsCollection(file_name)
LoadCollection ==
    /\ codec.phase = "stream"
    /\ codec' = [codec EXCEPT !.phase = "loaded",
                              !.collection = CollectionOfStream(codec.is)]
    /\ UNCHANGED <<package, iter, last, huff>>

\* at(alphabet_type) of a collection that was constructed
AtCall ==
    /\ codec.phase \in {"loaded", "at"}
    /\ codec.collection.ok
    /\ \E alphabet_type \in AlphabetTypes :
         codec' = [codec EXCEPT !.phase = "at",
                                !.alphabet_type = alphabet_type,
                                !.result = atType(codec.collection, alphabet_type)]
    /\ UNCHANGED <<package, iter, last, huff>>

NextCollection == LoadCollection \/ AtCall

SpecCollection == InitCollection /\ [][NextCollection]_vars

\* C21: at(AlphabetType) resolves each of the five types Adc, ActiveAdc,
\* DeltaRow, DeltaColumn, DeltaRowColumn to the statistics stored under
\* all_adc, active_adc, delta_row, delta_column, delta_row_column when a
\* block of that name was loaded, and raises the 'not found' error of the
\* collection when it was not.
C21_AtResolvesFiveTypes ==
    codec.phase = "at" =>
        LET name == [Adc |-> "all_adc", ActiveAdc |-> "active_adc",
                     DeltaRow |-> "delta_row", DeltaColumn |-> "delta_column",
                     DeltaRowColumn |-> "delta_row_column"][codec.alphabet_type]
        IN IF name \in DOMAIN codec.collection.statistics
           THEN /\ codec.result.outcome = "found"
                /\ codec.result.statistics = codec.collection.statistics[name]
           ELSE codec.result.outcome = "Alphabet statistics not found"

\* C22: loading a file whose content ends in the middle of a block (after
\* the name line, inside the header parameters, or before all
\* number_of_letters rows were read) fails with an error: it is never
\* accepted with the blocks parsed so far.
C22_TruncationIsAnError ==
    (/\ codec.phase = "loaded"
     /\ codec.cut \notin BlockBoundaries(codec.file)) => ~codec.collection.ok


(***************************************************************************)
(* Specification of Make: a chip of one of the layouts receives the pixels *)
(* of an event and the PackageMaker of a format without a dictionary       *)
(* makes its package (Make itself, without the partition of Encode).       *)
(***************************************************************************)
InitMake ==
    /\ package = EmptyPackage
    /\ iter = NoRead
    /\ last = NoCall
    /\ huff = NoHuff
    /\ \E config \in RawConfigs :
          codec = CodecState("constructed", config, ChipDataEncoder(config),
                             Chip(config.chip_layout))

MaxMakePixels == 3

\* chip.AddPixel for the pixels of an event of up to MaxMakePixels pixels
FillChip ==
    /\ codec.phase = "constructed"
    /\ \E event \in OrderedEvents(codec.config, MaxMakePixels) :
          LET filled == AddPixels([ok |-> TRUE, chip |-> codec.chip], event,
                                  1, Len(event))
          IN /\ filled.ok
             /\ codec' = [codec EXCEPT !.phase = "filled", !.chip = filled.chip]
    /\ UNCHANGED <<package, iter, last, huff>>

\* package_maker->Make(chip)
MakeChip ==
    /\ codec.phase = "filled"
    /\ package' = Make(codec.encoder.package_maker, codec.chip)
    /\ codec' = [codec EXCEPT !.phase = "made"]
    /\ UNCHANGED <<iter, last, huff>>

NextMake == FillChip \/ MakeChip

SpecMake == InitMake /\ [][NextMake]_vars

\* the elements of a set of numbers in ascending order
RECURSIVE Ascending(_)
Ascending(numbers) ==
    IF numbers = {} THEN <<>>
    ELSE LET least == CHOOSE n \in numbers : \A other \in numbers : n <= other
         IN <<least>> \o Ascending(numbers \ {least})

\* the layout of a macro-region of the chip (of a chip of one region, the
\* chip) split into readout units
AreaLayout(chip, readout_unit_layout) ==
    LET region_layout == IF GetNumberOfRegions(chip.multi_region_layout) = 1
                         THEN chip.region_layout
                         ELSE chip.multi_region_layout.region_layout
    IN MultiRegionLayoutOfTile(region_layout.n_rows, region_layout.n_columns,
                               readout_unit_layout)

\* the readout units of macro-region macro_region_id that hold a pixel
ActiveUnits(chip, readout_unit_layout, macro_region_id) ==
    LET area == AreaLayout(chip, readout_unit_layout)
        inside == {ConvertToRegionPixel(chip.multi_region_layout, chip.pixels[i][1]) :
                      i \in 1 .. Len(chip.pixels)}
    IN {ConvertToRegionPixel(area, at_region.region_pixel).region_id :
           at_region \in {r \in inside : r.region_id = macro_region_id}}

\* the largest number of active readout units of a macro-region
MostActiveUnits(chip, readout_unit_layout) ==
    LET counts == {Cardinality(ActiveUnits(chip, readout_unit_layout, m)) :
                      m \in 0 .. (GetNumberOfRegions(chip.multi_region_layout) - 1)}
    IN CHOOSE most \in counts : \A other \in counts : other <= most

\* pass k: <<macro_region_id, region_id>> of the k-th active unit of every
\* macro-region that has more than k, in macro_region_id order
UnitsOfPass(chip, readout_unit_layout, k) ==
    LET n_macro_regions == GetNumberOfRegions(chip.multi_region_layout)
        emitting == SelectSeq([m \in 1 .. n_macro_regions |-> m - 1], LAMBDA m :
                        Cardinality(ActiveUnits(chip, readout_unit_layout, m)) > k)
    IN [i \in 1 .. Len(emitting) |->
           <<emitting[i],
             Ascending(ActiveUnits(chip, readout_unit_layout, emitting[i]))[k + 1]>>]

\* the units of the passes before pass k, one after another
RECURSIVE UnitsBeforePass(_, _, _)
UnitsBeforePass(chip, readout_unit_layout, k) ==
    IF k = 0 THEN <<>>
    ELSE UnitsBeforePass(chip, readout_unit_layout, k - 1)
             \o UnitsOfPass(chip, readout_unit_layout, k - 1)

\* the number of bits of a unit of the format Region: its address and its
\* cells
BitsPerAddress(chip, readout_unit_layout) ==
    BitsPerValue(GetNumberOfRegions(AreaLayout(chip, readout_unit_layout))
                     * GetNumberOfRegions(chip.multi_region_layout))

BitsPerUnit(maker, chip) ==
    BitsPerAddress(chip, maker.readout_unit_layout)
        + GetNumberOfPixels(maker.readout_unit_layout) * maker.n_bits_per_adc

\* the units a package of the format Region holds: <<macro_region_id,
\* region_id>> of every address
UnitsOfPackage(p, maker, chip) ==
    [i \in 1 .. (p.size \div BitsPerUnit(maker, chip)) |->
        LET id == SplitFullRegionId(
                      ToNat(read(p, (i - 1) * BitsPerUnit(maker, chip),
                                 BitsPerAddress(chip, maker.readout_unit_layout),
                                 FALSE).value),
                      GetNumberOfRegions(chip.multi_region_layout))
        IN <<id.macro_region_id, id.region_id>>]

\* C23: BlockPackageMaker::Make returns for every chip it can write; in
\* pass k every macro-region with more than k active readout units emits
\* its k-th active unit (units in ascending region_id, macro-regions in
\* ascending macro_region_id), a marker is recorded after each pass, the
\* number of markers is the largest number of active units of a
\* macro-region, the last marker is the size of the package; an empty chip
\* gives size 0 and no marker.
C23_RegionRoundRobin ==
    (codec.phase = "made" /\ codec.config.encoder_format = "Region" /\ package.ok) =>
        LET maker == codec.encoder.package_maker
            unit == maker.readout_unit_layout
            n_passes == MostActiveUnits(codec.chip, unit)
        IN /\ UnitsOfPackage(package, maker, codec.chip)
                 = UnitsBeforePass(codec.chip, unit, n_passes)
           /\ package.size = Len(UnitsBeforePass(codec.chip, unit, n_passes))
                                 * BitsPerUnit(maker, codec.chip)
           /\ package.readout
                 = [k \in 1 .. n_passes |->
                       Len(UnitsBeforePass(codec.chip, unit, k))
                           * BitsPerUnit(maker, codec.chip)]
           /\ n_passes > 0 => package.readout[n_passes] = package.size
           /\ Len(codec.chip.pixels) = 0 => package.size = 0 /\ package.readout = <<>>

\* a chip with two macro-regions of different numbers of active units was made
C23_Witness ==
    /\ codec.phase = "made"
    /\ codec.config.encoder_format = "Region"
    /\ package.ok
    /\ Len(package.readout) = 2
    /\ \E m \in 0 .. (GetNumberOfRegions(codec.chip.multi_region_layout) - 1) :
          Cardinality(ActiveUnits(codec.chip, codec.config.readout_unit_layout, m)) = 1


(***************************************************************************)
(* The trailer and the markers of the format Delta, on the chip Make is    *)
(* called with (the chip Encode hands it).                                 *)
(***************************************************************************)
\* the number of pixels of every macro-region of the chip, in
\* macro_region_id order
PixelsPerMacroRegion(chip) ==
    [k \in 1 .. GetNumberOfRegions(chip.multi_region_layout) |->
        Cardinality({i \in 1 .. Len(chip.pixels) :
            ConvertToRegionPixel(chip.multi_region_layout, chip.pixels[i][1]).region_id
                = k - 1})]

\* the bits of the count, the most significant one first, are the bits of
\* the package from pos on
CountAt(p, pos, count) ==
    \A j \in 0 .. (BitsPerNpixels - 1) :
        BitAt(p, pos + j) <=> ((count \div (2 ^ (BitsPerNpixels - 1 - j))) % 2 = 1)

\* C24: for every chip with more than one macro-region, a package Delta
\* Make returns ends with the counts of the pixels of the macro-regions,
\* in macro_region_id order, each in 10 bits with the most significant
\* bit first; with P the largest count, it has ceil(P / 2) + 1 markers,
\* the last one at the size of the package and, when P > 0, the one before
\* it at the start of the trailer; and Make fails when a macro-region
\* holds 2 ^ 10 pixels or more.
C24_DeltaTrailer ==
    (/\ codec.config.encoder_format = "Delta"
     /\ codec.phase \in {"encoded", "decoded"}
     /\ GetNumberOfRegions(SplitChip(codec.encoder.chip_layout, codec.chip)
                               .multi_region_layout) > 1) =>
        LET counts == PixelsPerMacroRegion(SplitChip(codec.encoder.chip_layout, codec.chip))
            n_macro_regions == Len(counts)
            n_passes == MaxOf(counts)
            n_markers == (n_passes + 1) \div 2 + 1
            trailer == package.size - n_macro_regions * BitsPerNpixels
        IN /\ package.ok =>
                /\ trailer >= 0
                /\ \A k \in 1 .. n_macro_regions :
                      CountAt(package, trailer + (k - 1) * BitsPerNpixels, counts[k])
                /\ Len(package.readout) = n_markers
                /\ package.readout[n_markers] = package.size
                /\ n_passes > 0 => package.readout[n_markers - 1] = trailer
           /\ (\E k \in 1 .. n_macro_regions : counts[k] >= 2 ^ BitsPerNpixels)
                  => ~package.ok

\* a package was made of a chip of two macro-regions, one of them with the
\* largest number of pixels the trailer can hold
C24_Witness ==
    /\ codec.config.encoder_format = "Delta"
    /\ codec.phase = "encoded"
    /\ package.ok
    /\ PixelsPerMacroRegion(SplitChip(codec.encoder.chip_layout, codec.chip))
           = <<2 ^ BitsPerNpixels - 1, 0>>


(***************************************************************************)
(* The package of the format SinglePixel.                                  *)
(***************************************************************************)
BitsPerRecord(maker, chip) == BitsPerId(chip.multi_region_layout) + maker.n_bits_per_adc

\* the records a package of the format SinglePixel holds: <<pixel, adc>>
RecordsOfPackage(p, maker, chip) ==
    [i \in 1 .. (p.size \div BitsPerRecord(maker, chip)) |->
        LET id_read == read(p, (i - 1) * BitsPerRecord(maker, chip),
                            BitsPerId(chip.multi_region_layout), FALSE)
            adc_read == read(p, id_read.pos, maker.n_bits_per_adc, FALSE)
        IN <<GetPixel(chip.multi_region_layout, ToNat(id_read.value)).pixel,
             ToNat(adc_read.value)>>]

\* the pixels of macro-region macro_region_id in the order of the map
PixelsOfMacroRegion(chip, macro_region_id) ==
    SelectSeq(chip.pixels, LAMBDA entry :
        ConvertToRegionPixel(chip.multi_region_layout, entry[1]).region_id = macro_region_id)

\* the pixels of the passes before pass n: pass k has the k-th pixel of
\* every macro-region that has more than k, in macro_region_id order
RECURSIVE PixelsBeforePass(_, _)
PixelsBeforePass(chip, n) ==
    IF n = 0 THEN <<>>
    ELSE LET n_macro_regions == GetNumberOfRegions(chip.multi_region_layout)
             emitting == SelectSeq([m \in 1 .. n_macro_regions |-> m - 1], LAMBDA m :
                             Len(PixelsOfMacroRegion(chip, m)) > n - 1)
         IN PixelsBeforePass(chip, n - 1)
                \o [i \in 1 .. Len(emitting) |-> PixelsOfMacroRegion(chip, emitting[i])[n]]

\* the size and the empty chip: N records of BitsPerId + n_bits_per_adc bits
SinglePixelSize ==
    /\ package.size = Len(codec.chip.pixels)
                          * BitsPerRecord(codec.encoder.package_maker, codec.chip)
    /\ Len(codec.chip.pixels) = 0 => package.readout = <<>>

\* the records are those of the map, in its order, and a marker follows
\* every n_regions-th pixel and the last one
SinglePixelMapOrder ==
    LET maker == codec.encoder.package_maker
        n_pixels == Len(codec.chip.pixels)
        n_regions == GetNumberOfRegions(codec.chip.multi_region_layout)
        marked == SelectSeq([n \in 1 .. n_pixels |-> n], LAMBDA n :
                      n % n_regions = 0 \/ n = n_pixels)
    IN /\ RecordsOfPackage(package, maker, codec.chip) = codec.chip.pixels
       /\ package.readout
             = [i \in 1 .. Len(marked) |-> marked[i] * BitsPerRecord(maker, codec.chip)]

\* the records are those of the passes, and a marker follows every second
\* pass and the last one
SinglePixelRoundRobin ==
    LET maker == codec.encoder.package_maker
        n_passes == MaxOf(PixelsPerMacroRegion(codec.chip))
        marked == SelectSeq([n \in 1 .. n_passes |-> n], LAMBDA n :
                      n % 2 = 0 \/ n = n_passes)
    IN /\ RecordsOfPackage(package, maker, codec.chip) = PixelsBeforePass(codec.chip, n_passes)
       /\ package.readout
             = [i \in 1 .. Len(marked) |->
                   Len(PixelsBeforePass(codec.chip, marked[i]))
                       * BitsPerRecord(maker, codec.chip)]

\* C25 as stated: a package of the format SinglePixel of a chip of N
\* pixels holds N records (pixel_id in BitsPerId bits, then the ADC in
\* n_bits_per_adc bits) in the order of the chip's map, with a marker
\* after every n_regions-th pixel and after the last one; the empty chip
\* gives size 0 and no marker.
C25_SinglePixelMapOrder ==
    (/\ codec.phase = "made"
     /\ codec.config.encoder_format = "SinglePixel"
     /\ package.ok) => SinglePixelSize /\ SinglePixelMapOrder

\* C25, amended: the size and the record are as stated; the earlier
\* version of the maker writes the records in the order of the map with a
\* marker after every n_regions-th pixel and after the last one, the later
\* version writes them pass by pass (pass n: the n-th pixel, in map order,
\* of every macro-region that has one, in macro_region_id order) with a
\* marker after every second pass and after the last one.
C25_SinglePixelFormat ==
    (/\ codec.phase = "made"
     /\ codec.config.encoder_format = "SinglePixel"
     /\ package.ok) =>
        /\ SinglePixelSize
        /\ IF codec.config.earlier THEN SinglePixelMapOrder ELSE SinglePixelRoundRobin

\* the later version made the package of a chip whose passes are not in
\* the order of the map
C25_Witness ==
    /\ codec.phase = "made"
    /\ codec.config.encoder_format = "SinglePixel"
    /\ ~codec.config.earlier
    /\ package.ok
    /\ Len(codec.chip.pixels) = 3
    /\ PixelsBeforePass(codec.chip, 2) # codec.chip.pixels


\* C26: every ADC in [0, max_adc] of a chip is below 2 ^ n_bits_per_adc,
\* n_bits_per_adc = BitsPerValue(max_adc), so that the writes of the ADC
\* of the formats SinglePixel and Region do not fail with 'value too big'
\* and Make returns its package.
C26_AdcWidth ==
    (/\ codec.phase = "made"
     /\ codec.config.encoder_format \in {"SinglePixel", "Region"}
     /\ \A i \in 1 .. Len(codec.chip.pixels) :
           codec.chip.pixels[i][2] \in 0 .. codec.config.max_adc) =>
        /\ codec.encoder.package_maker.n_bits_per_adc = BitsPerValue(codec.config.max_adc)
        /\ AdcRepresentable
        /\ package.ok


\* C27: for every chip with the outer dimensions of chip_layout and another
\* split into regions, the chip Encode hands the PackageMaker has the
\* region_layout, n_region_rows and n_region_columns of chip_layout, the
\* pixel -> ADC map of the input chip, and sub-regions that mirror the map.
C27_EncodeNormalisation ==
    (/\ codec.phase \in {"filled", "encoded", "decoded"}
     /\ codec.chip.multi_region_layout.n_rows = codec.encoder.chip_layout.n_rows
     /\ codec.chip.multi_region_layout.n_columns = codec.encoder.chip_layout.n_columns
     /\ ~SameMultiRegionLayout(codec.chip.multi_region_layout, codec.encoder.chip_layout)) =>
        LET chip == SplitChip(codec.encoder.chip_layout, codec.chip)
        IN /\ SameMultiRegionLayout(chip.multi_region_layout, codec.encoder.chip_layout)
           /\ chip.pixels = codec.chip.pixels
           /\ GetNumberOfRegions(chip.multi_region_layout) > 1 =>
                 /\ Len(chip.regions) = GetNumberOfRegions(chip.multi_region_layout)
                 /\ RegionEntries(chip) = Entries(chip.pixels)


(***************************************************************************)
(* Specification of the builder: a DictionaryBuilder of a configuration    *)
(* receives up to MaxBuilderChips chips, each constructed with             *)
(* chip_layout or as one region and filled with the pixels of an event.    *)
(* `chips` keeps the chips that were added.                                *)
(***************************************************************************)
MaxBuilderChips == 2

BuilderConfigs ==
    {Config("Region", chip_layout, readout_unit_layout, 3, 2, FALSE) :
        chip_layout \in {MultiRegionLayoutOfGrid(2, 2, 1, 1),
                         MultiRegionLayoutOfGrid(2, 4, 1, 2)},
        readout_unit_layout \in {RegionLayout(1, 2), RegionLayout(2, 2), RegionLayout(2, 3)}}

InitBuilder ==
    /\ package = EmptyPackage
    /\ iter = NoRead
    /\ last = NoCall
    /\ huff = NoHuff
    /\ \E config \in BuilderConfigs :
          codec = [phase |-> "builder", config |-> config,
                   builder |-> DictionaryBuilder(config), chips |-> <<>>]

\* builder.AddChip(chip)
AddChipCall ==
    /\ codec.phase = "builder"
    /\ Len(codec.chips) < MaxBuilderChips
    /\ \E event \in OrderedEvents(codec.config, MaxPixels) :
       \E layout \in {codec.config.chip_layout,
                      MultiRegionLayoutOfTile(codec.config.chip_layout.n_rows,
                          codec.config.chip_layout.n_columns,
                          RegionLayout(codec.config.chip_layout.n_rows,
                                       codec.config.chip_layout.n_columns))} :
          LET filled == AddPixels([ok |-> TRUE, chip |-> Chip(layout)], event, 1, Len(event))
          IN /\ filled.ok
             /\ codec' = [codec EXCEPT
                             !.builder = AddChip(@, codec.config, filled.chip),
                             !.chips = Append(@, filled.chip)]
    /\ UNCHANGED <<package, iter, last, huff>>

\* the builder is constructed anew
ResetBuilder ==
    /\ codec.phase = "builder"
    /\ Len(codec.chips) > 0
    /\ codec' = [codec EXCEPT !.builder = DictionaryBuilder(codec.config), !.chips = <<>>]
    /\ UNCHANGED <<package, iter, last, huff>>

NextBuilder == AddChipCall \/ ResetBuilder

SpecBuilder == InitBuilder /\ [][NextBuilder]_vars

\* the sum of the numbers of a sequence
RECURSIVE SumOf(_)
SumOf(numbers) == IF Len(numbers) = 0 THEN 0 ELSE Head(numbers) + SumOf(Tail(numbers))

\* the number of active readout units of a chip, split by chip_layout
NumberOfActiveUnits(config, chip) ==
    LET split == [chip EXCEPT !.multi_region_layout = config.chip_layout]
    IN SumOf([k \in 1 .. GetNumberOfRegions(config.chip_layout) |->
                 Cardinality(ActiveUnits(split, config.readout_unit_layout, k - 1))])

\* C28: after the AddChip calls, n_counts of active_adc and of
\* delta_row_column are the number of pixels of all chips added, n_counts
\* of all_adc is the number of active readout units of all chips times the
\* number of cells of the readout unit, and the frequencies of the
\* non-zero letters of all_adc add up to the number of pixels with a
\* non-zero ADC.
C28_BuilderCounts ==
    codec.phase = "builder" =>
        LET builder == codec.builder
            n_pixels == SumOf([i \in 1 .. Len(codec.chips) |-> Len(codec.chips[i].pixels)])
            n_units == SumOf([i \in 1 .. Len(codec.chips) |->
                                 NumberOfActiveUnits(codec.config, codec.chips[i])])
            n_non_zero == SumOf([i \in 1 .. Len(codec.chips) |->
                              Cardinality({n \in 1 .. Len(codec.chips[i].pixels) :
                                              codec.chips[i].pixels[n][2] # 0})])
        IN /\ builder.active_adc_prod.n_counts = n_pixels
           /\ builder.delta_row_column_prod.n_counts = n_pixels
           /\ builder.all_adc_prod.n_counts
                 = n_units * GetNumberOfPixels(codec.config.readout_unit_layout)
           /\ SumOfFrequencies(builder.all_adc_prod.letter_frequencies,
                  DOMAIN builder.all_adc_prod.letter_frequencies \ {0}) = n_non_zero


(***************************************************************************)
(* Specification of the copy of a chip.  PixelMultiRegion declares no      *)
(* copy constructor: the copy has its own map and its own vector of        *)
(* std::shared_ptr<PixelRegion>, the pointers of which are those of the    *)
(* original.  `shared` holds the regions whose object both chips point     *)
(* to; a region that was null when the chip was copied is created by the   *)
(* chip that adds its first pixel and is that chip's alone.                *)
(***************************************************************************)
MaxCopyCalls == 2

CopyLayouts == {MultiRegionLayoutOfGrid(2, 4, 1, 2), MultiRegionLayoutOfGrid(2, 2, 2, 2)}

CopyState(original, copy, copied, shared, at_copy, n_calls) ==
    [phase |-> "copy", original |-> original, copy |-> copy, copied |-> copied,
     shared |-> shared, at_copy |-> at_copy, n_calls |-> n_calls]

InitCopy ==
    /\ package = EmptyPackage
    /\ iter = NoRead
    /\ last = NoCall
    /\ huff = NoHuff
    /\ \E multi_layout \in CopyLayouts :
          codec = CopyState(Chip(multi_layout), NoChip, FALSE, {}, NoChip, 0)

\* original.AddPixel(pixel, adc), before the chip is copied
AddPixelToOriginal ==
    /\ ~codec.copied
    /\ codec.n_calls < MaxCopyCalls
    /\ \E pixel \in PixelsOf(codec.original.region_layout), adc \in {1, 2} :
          With(AddPixel(codec.original, pixel, adc), LAMBDA added :
              /\ added.ok
              /\ codec' = [codec EXCEPT !.original = added.chip, !.n_calls = @ + 1])
    /\ UNCHANGED <<package, iter, last, huff>>

\* Chip copy(original): the implicit copy constructor
CopyChip ==
    /\ ~codec.copied
    /\ codec' = CopyState(codec.original, codec.original, TRUE,
                          {k \in DOMAIN codec.original.regions :
                              codec.original.regions[k].active},
                          codec.original, 0)
    /\ UNCHANGED <<package, iter, last, huff>>

\* copy.AddPixel(pixel, adc): the sub-region of the pixel is the object the
\* vector of the copy points to
AddPixelToCopy ==
    /\ codec.copied
    /\ codec.n_calls < MaxCopyCalls
    /\ \E pixel \in PixelsOf(codec.copy.region_layout), adc \in {1, 2} :
          With(AddPixel(codec.copy, pixel, adc), LAMBDA added :
          With(ConvertToRegionPixel(codec.copy.multi_region_layout, pixel).region_id + 1,
               LAMBDA k :
              /\ added.ok
              /\ codec' = [codec EXCEPT
                    !.copy = added.chip,
                    !.original = IF k \in codec.shared
                                 THEN [@ EXCEPT !.regions[k] = added.chip.regions[k]]
                                 ELSE @,
                    !.n_calls = @ + 1]))
    /\ UNCHANGED <<package, iter, last, huff>>

NextCopy == AddPixelToOriginal \/ CopyChip \/ AddPixelToCopy

SpecCopy == InitCopy /\ [][NextCopy]_vars

\* C29: after a chip of more than one region and at least one pixel was
\* copied, AddPixel on the copy leaves the map and every sub-region of the
\* original as they were, and the sub-regions of the original mirror its
\* map.
C29_CopyIsIndependent ==
    (/\ codec.phase = "copy"
     /\ codec.copied
     /\ Len(codec.at_copy.pixels) > 0) =>
        /\ codec.original.pixels = codec.at_copy.pixels
        /\ codec.original.regions = codec.at_copy.regions
        /\ RegionEntries(codec.original) = Entries(codec.original.pixels)


(***************************************************************************)
(* Specification of the copy of a package: the calls of SpecPackage and    *)
(* the copy constructor, whose result and argument `codec` keeps.          *)
(***************************************************************************)
\* Package(const Package& other): data and the positions of begin and end
\* are initialised from other, readout_position_collection by default
PackageCopy(other) ==
    [ok |-> TRUE, data |-> other.data, size |-> other.size, readout |-> <<>>]

\* Package copy(package)
CopyPackage ==
    /\ codec' = [phase |-> "copied", other |-> package, copy |-> PackageCopy(package)]
    /\ UNCHANGED <<package, iter, last, huff>>

NextPackageCopy ==
    \/ Write
    \/ WriteEx
    \/ WritePackage
    \/ FinalizeByte
    \/ NextReadoutCicle
    \/ CopyPackage

SpecPackageCopy == InitPackage /\ [][NextPackageCopy]_vars

\* C30: a package constructed as the copy of a package has its bytes, its
\* size in bits and its list of readout positions.
C30_PackageCopy ==
    codec.phase = "copied" =>
        /\ codec.copy.data = codec.other.data
        /\ codec.copy.size = codec.other.size
        /\ codec.copy.readout = codec.other.readout

=============================================================================
